---------------------------- MODULE Spec2Model ----------------------------
(***************************************************************************)
(* A byte-level model of the mp4ameta tag reader and in-place rewriter.    *)
(*                                                                         *)
(* A file is a sequence of bytes (0..255); file offset p is element p+1.   *)
(* Boxes carry a real 8-byte head (4-byte big-endian size, 4-byte fourcc)  *)
(* or a 16-byte extended head.  Two generations of the code are modelled:  *)
(*   - src/src/atom/mod.rs : read_tag_from / write_tag_to built on the     *)
(*     bounds finder (Moov::find ...); the finder's files are not part of  *)
(*     the sources, so those operators follow the written specification;   *)
(*   - src/src/atom.rs     : the template driven parse_head / AtomT::parse *)
(*     / parse_atoms / read_tag_from / write_tag_to (prefix atom_rs_).     *)
(***************************************************************************)
EXTENDS Integers, Sequences, FiniteSets, TLC

VARIABLES
    file,     \* the bytes of the file on disk
    orig,     \* the bytes of the file when the running call started
    first,    \* the bytes of the file when the first write call returned
    items,    \* the MetaItem list handed to write_tag_to
    src,      \* "new": items chosen by the caller, "read": items from read_tag_from
    tag,      \* the result of the last read_tag_from: [err, items]
    pc,       \* position inside write_tag_to
    plan,     \* the locals write_tag_to computed while planning
    res,      \* the result of the last finished operation
    calls     \* the number of write_tag_to calls started

vars == <<file, orig, first, items, src, tag, pc, plan, res, calls>>

-----------------------------------------------------------------------------
(* Bounds of the model.                                                    *)

\* write_tag_to calls made in a row on one file
MaxCalls == 2

-----------------------------------------------------------------------------
(* Bytes and big-endian integers.                                           *)

\* `let v = <expr>;` followed by the code F that uses v: the expression is
\* bound once
Let(v, F(_)) == F(v)

Max(a, b) == IF a >= b THEN a ELSE b
Min(a, b) == IF a <= b THEN a ELSE b

RECURSIVE Concat(_)
Concat(ss) == IF ss = <<>> THEN <<>> ELSE Head(ss) \o Concat(Tail(ss))

RECURSIVE SumLen(_)
SumLen(ss) == IF ss = <<>> THEN 0 ELSE Len(Head(ss)) + SumLen(Tail(ss))

\* u32::to_be_bytes(n as u32): a negative n is cast the way `as u32` casts
\* it (two's complement), byte by byte.
BE32(n) ==
    IF n >= 0
    THEN << (n \div 16777216) % 256, (n \div 65536) % 256, (n \div 256) % 256, n % 256 >>
    ELSE LET m == (0 - n) - 1 IN
         << 255 - ((m \div 16777216) % 256), 255 - ((m \div 65536) % 256),
            255 - ((m \div 256) % 256), 255 - (m % 256) >>

\* u64::to_be_bytes(n as u64) for |n| < 2^31.
BE64(n) == (IF n >= 0 THEN <<0, 0, 0, 0>> ELSE <<255, 255, 255, 255>>) \o BE32(n)

\* the bytes [p, p+n) of f (file offsets), cut at the end of the file
Bytes(f, p, n) == SubSeq(f, p + 1, Min(p + n, Len(f)))

\* u32::from_be_bytes of the four bytes at offset p
U32At(f, p) == ((f[p + 1] * 256 + f[p + 2]) * 256 + f[p + 3]) * 256 + f[p + 4]

\* A size field read from the file.  Every file of the model is far shorter
\* than 2^31 bytes, so a box whose size field is 2^31 or more ends behind
\* the end of the file whatever its exact size: such a size is kept as
\* 127 * 2^24.
ReadU32(f, p) == IF f[p + 1] < 128 THEN U32At(f, p) ELSE 127 * 16777216

ReadU64(f, p) ==
    IF Bytes(f, p, 4) = <<0, 0, 0, 0>> THEN ReadU32(f, p + 4) ELSE 127 * 16777216

\* A chunk offset read from the file.  The code only adds len_diff to it and
\* casts the sum back to the entry's width, so the entry is kept as its
\* representative modulo 2^32 (2^64) in the signed range: the bytes
\* ff ff ff ff are read as -1, and BE32(-1 + d) are the bytes the code
\* writes for (4294967295 + d) as u32.
Wrapped32At(f, p) ==
    IF f[p + 1] < 128 THEN U32At(f, p)
    ELSE 0 - ((((255 - f[p + 1]) * 256 + (255 - f[p + 2])) * 256
                  + (255 - f[p + 3])) * 256 + (255 - f[p + 4])) - 1

Wrapped64At(f, p) == Wrapped32At(f, p + 4)

\* a write of `bytes` at offset p: overwrites, and extends the file when the
\* write runs past its end (a gap is zero filled)
WriteAt(f, p, bytes) ==
    [i \in 1..Max(Len(f), p + Len(bytes)) |->
        IF i > p /\ i <= p + Len(bytes) THEN bytes[i - p]
        ELSE IF i <= Len(f) THEN f[i] ELSE 0]

\* a defect of SetLen: the length of the file is left as it is
SetLen_kept(f, n) == f

\* File::set_len(n): truncates, or extends with zero bytes
SetLen(f, n) == [i \in 1..n |-> IF i <= Len(f) THEN f[i] ELSE 0]

-----------------------------------------------------------------------------
(* Fourccs.                                                                 *)

FILE_TYPE         == <<102, 116, 121, 112>>   \* ftyp
MOVIE             == <<109, 111, 111, 118>>   \* moov
MEDIA_DATA        == <<109, 100, 97, 116>>    \* mdat
MOVIE_HEADER      == <<109, 118, 104, 100>>   \* mvhd
TRACK             == <<116, 114, 97, 107>>    \* trak
TRACK_HEADER      == <<116, 107, 104, 100>>   \* tkhd
TRACK_REFERENCE   == <<116, 114, 101, 102>>   \* tref
MEDIA             == <<109, 100, 105, 97>>    \* mdia
MEDIA_INFORMATION == <<109, 105, 110, 102>>   \* minf
SAMPLE_TABLE      == <<115, 116, 98, 108>>    \* stbl
SAMPLE_TABLE_CHUNK_OFFSET    == <<115, 116, 99, 111>>   \* stco
SAMPLE_TABLE_CHUNK_OFFSET_64 == <<99, 111, 54, 52>>     \* co64
USER_DATA         == <<117, 100, 116, 97>>    \* udta
METADATA          == <<109, 101, 116, 97>>    \* meta
HANDLER_REFERENCE == <<104, 100, 108, 114>>   \* hdlr
ITEM_LIST         == <<105, 108, 115, 116>>   \* ilst
DATA              == <<100, 97, 116, 97>>     \* data
FREE              == <<102, 114, 101, 101>>   \* free
TITLE             == <<169, 110, 97, 109>>    \* (c)nam
ARTIST            == <<169, 65, 82, 84>>      \* (c)ART
COMPILATION       == <<99, 112, 105, 108>>    \* cpil

\* "M4A ", "M4B ", "M4P ", "M4V ", "isom"
VALID_FILE_TYPES ==
    << <<77, 52, 65, 32>>, <<77, 52, 66, 32>>, <<77, 52, 80, 32>>,
       <<77, 52, 86, 32>>, <<105, 115, 111, 109>> >>

-----------------------------------------------------------------------------
(* Writing atoms: WriteAtom::size / len / write_atom per variant.           *)
(* An optional child (Option<T>) is a sequence of length 0 or 1.            *)

\* write_head(writer, Head::from(size, fourcc)) for a box of `len` bytes whose
\* size fits 32 bits: the 4-byte size and the fourcc
write_head(len, fourcc) == BE32(len) \o fourcc

\* Meta::hdlr(): the canonical handler reference payload, handler type
\* "mdir", manufacturer "appl"; the box it makes is 33 bytes long
Meta_hdlr ==
    << 0, 0, 0, 0,   0, 0, 0, 0,   109, 100, 105, 114,   97, 112, 112, 108,
       0, 0, 0, 0,   0, 0, 0, 0,   0 >>

\* Hdlr::size(): Size::from(self.0.len()), as a box length
Hdlr_len(h) == 8 + Len(h)

\* Hdlr::write_atom: the head, then the payload bytes
Hdlr_write(h) == write_head(Hdlr_len(h), HANDLER_REFERENCE) \o h

\* a data atom: type code, locale (written as zero), payload
Data_len(d) == 8 + 8 + Len(d.payload)

Data_write(d) ==
    write_head(Data_len(d), DATA) \o BE32(d.code) \o BE32(0) \o d.payload

RECURSIVE Data_len_sum(_)
Data_len_sum(ds) == IF ds = <<>> THEN 0 ELSE Data_len(Head(ds)) + Data_len_sum(Tail(ds))

\* a MetaItem: a box named by the item's fourcc holding its data atoms
MetaItem_len(it) == 8 + Data_len_sum(it.data)

MetaItem_write(it) ==
    write_head(MetaItem_len(it), it.ident)
        \o Concat([i \in 1..Len(it.data) |-> Data_write(it.data[i])])

RECURSIVE MetaItem_len_sum(_)
MetaItem_len_sum(its) ==
    IF its = <<>> THEN 0 ELSE MetaItem_len(Head(its)) + MetaItem_len_sum(Tail(its))

\* Ilst: the item list, items in list order
Ilst_len(its) == 8 + MetaItem_len_sum(its)

Ilst_write(its) ==
    write_head(Ilst_len(its), ITEM_LIST)
        \o Concat([i \in 1..Len(its) |-> MetaItem_write(its[i])])

\* Option<Hdlr>::len_or_zero
Hdlr_len_or_zero(h) == IF h = <<>> THEN 0 ELSE Hdlr_len(h[1])

Ilst_len_or_zero(i) == IF i = <<>> THEN 0 ELSE Ilst_len(i[1])

\* Meta { hdlr, ilst }: a full box, version 0 and flags 0 first
Meta_len(m) == 8 + 4 + Hdlr_len_or_zero(m.hdlr) + Ilst_len_or_zero(m.ilst)

Meta_write(m) ==
    write_head(Meta_len(m), METADATA) \o <<0, 0, 0, 0>>
        \o (IF m.hdlr = <<>> THEN <<>> ELSE Hdlr_write(m.hdlr[1]))
        \o (IF m.ilst = <<>> THEN <<>> ELSE Ilst_write(m.ilst[1]))

\* Udta { meta }
Udta_len(u) == 8 + (IF u.meta = <<>> THEN 0 ELSE Meta_len(u.meta[1]))

Udta_write(u) ==
    write_head(Udta_len(u), USER_DATA)
        \o (IF u.meta = <<>> THEN <<>> ELSE Meta_write(u.meta[1]))

-----------------------------------------------------------------------------
(* The input files of the model, built box by box.                         *)

\* a box with an 8-byte head
Box(fourcc, content) == BE32(8 + Len(content)) \o fourcc \o content

\* item lists: the old content of a file's ilst and the lists handed to
\* write_tag_to (type code 1: UTF-8, 21: big-endian signed integer)
Utf8(bytes) == [code |-> 1, payload |-> bytes]
BeSigned(bytes) == [code |-> 21, payload |-> bytes]

ItemLists ==
    << <<>>,
       << [ident |-> TITLE, data |-> <<Utf8(<<97>>)>>] >>,
       << [ident |-> TITLE, data |-> <<Utf8(<<97, 98, 99>>)>>],
          [ident |-> COMPILATION, data |-> <<BeSigned(<<1>>)>>] >>,
       << [ident |-> ARTIST, data |-> <<Utf8(<<120>>), Utf8(<<121, 122>>)>>] >> >>

\* the handler payload found in files some other writer made
ForeignHdlr == <<0, 0, 0, 0, 109, 100, 105, 114>>

\* the shapes of the metadata hierarchy under moov
Shapes == {"none", "udta", "meta", "hdlr", "ilst", "hdlr_ilst", "ilst_hdlr"}

\* the shapes some writers make: a meta whose content starts with the head of
\* its first child, without the version and flags before it
BareShapes == {"bare_ilst", "bare_hdlr_ilst"}

ShapeHasIlst(shape) == shape \in {"ilst", "hdlr_ilst", "ilst_hdlr"}
ShapeHasHdlr(shape) == shape \in {"hdlr", "hdlr_ilst", "ilst_hdlr"}

UdtaBytes(shape, old) ==
    LET hdlr == Box(HANDLER_REFERENCE, ForeignHdlr)
        ilst == Ilst_write(ItemLists[old])
        meta(c) == Box(METADATA, <<0, 0, 0, 0>> \o c)
    IN  CASE shape = "none"      -> <<>>
          [] shape = "udta"      -> Box(USER_DATA, <<>>)
          [] shape = "meta"      -> Box(USER_DATA, meta(<<>>))
          [] shape = "hdlr"      -> Box(USER_DATA, meta(hdlr))
          [] shape = "ilst"      -> Box(USER_DATA, meta(ilst))
          [] shape = "hdlr_ilst" -> Box(USER_DATA, meta(hdlr \o ilst))
          [] shape = "ilst_hdlr" -> Box(USER_DATA, meta(ilst \o hdlr))
          [] shape = "bare_ilst" -> Box(USER_DATA, Box(METADATA, ilst))
          [] shape = "bare_hdlr_ilst" -> Box(USER_DATA, Box(METADATA, hdlr \o ilst))

\* chunk offset tables: version and flags, entry count, entries
StcoBytes(offs) ==
    Box(SAMPLE_TABLE_CHUNK_OFFSET,
        <<0, 0, 0, 0>> \o BE32(Len(offs)) \o Concat([i \in 1..Len(offs) |-> BE32(offs[i])]))

Co64Bytes(offs) ==
    Box(SAMPLE_TABLE_CHUNK_OFFSET_64,
        <<0, 0, 0, 0>> \o BE32(Len(offs)) \o Concat([i \in 1..Len(offs) |-> BE64(offs[i])]))

TrakBytes(table) ==
    Box(TRACK, Box(TRACK_HEADER, <<0, 0>>)
               \o Box(MEDIA, Box(MEDIA_INFORMATION, Box(SAMPLE_TABLE, table))))

\* the tables of a file: "stco" one trak with a two-entry stco, "co64" one
\* trak with a one-entry co64, "two" both traks
Tables == {"stco", "co64", "two"}

TraksBytes(tbl, offs) ==
    CASE tbl = "stco" -> TrakBytes(StcoBytes(<<offs[1], offs[2]>>))
      [] tbl = "co64" -> TrakBytes(Co64Bytes(<<offs[3]>>))
      [] tbl = "two"  -> TrakBytes(StcoBytes(<<offs[1], offs[2]>>))
                           \o TrakBytes(Co64Bytes(<<offs[3]>>))

\* the order of moov's children after mvhd
Inners == {"trak_udta", "udta_trak"}

MoovBytes(lay, offs) ==
    LET mvhd == Box(MOVIE_HEADER, <<0, 0, 0, 0>>)
        trak == TraksBytes(lay.tbl, offs)
        udta == UdtaBytes(lay.shape, lay.old)
    IN  Box(MOVIE, mvhd \o (IF lay.inner = "trak_udta" THEN trak \o udta ELSE udta \o trak))

\* the payloads of the first and of the second mdat
MdatPayload(k) == IF k = 1 THEN <<201, 202, 203>> ELSE <<211, 212, 213>>

\* the top-level boxes after ftyp
Tops ==
    { <<"moov", "mdat">>, <<"mdat", "moov">>, <<"mdat", "moov", "mdat">>,
      <<"moov", "free", "mdat">>, <<"free", "mdat", "moov", "free">> }

\* files without a moov box
NoMoovTops == { <<>>, <<"free">>, <<"mdat", "free">> }

FtypBytes == Box(FILE_TYPE, <<77, 52, 65, 32, 0, 0, 2, 0>>)

\* how many mdat tokens top[1..i] holds
RECURSIVE MdatCount(_, _)
MdatCount(top, i) ==
    IF i = 0 THEN 0 ELSE MdatCount(top, i - 1) + (IF top[i] = "mdat" THEN 1 ELSE 0)

Pieces(lay, offs) ==
    <<FtypBytes>> \o
    [i \in 1..Len(lay.top) |->
        CASE lay.top[i] = "moov" -> MoovBytes(lay, offs)
          [] lay.top[i] = "mdat" -> Box(MEDIA_DATA, MdatPayload(MdatCount(lay.top, i)))
          [] lay.top[i] = "free" -> Box(FREE, <<240 + i>>)]

\* the content position of the k-th mdat (piece lengths do not depend on the
\* offsets' values)
MdatContentPos(lay, k) ==
    LET ps == Pieces(lay, <<0, 0, 0>>)
        i  == CHOOSE j \in 1..Len(lay.top) :
                  lay.top[j] = "mdat" /\ MdatCount(lay.top, j) = k
    IN  SumLen(SubSeq(ps, 1, i)) + 8

\* the chunk offsets of a layout: every entry points inside the content of an
\* mdat; with two mdats the tables point into both
ChunkOffsets(lay) ==
    LET n  == MdatCount(lay.top, Len(lay.top))
        m1 == MdatContentPos(lay, 1)
        m2 == MdatContentPos(lay, n)
    IN  IF n = 0 THEN <<0, 0, 0>> ELSE <<m1, m2 + 2, m2 + 1>>

Build(lay) == Concat(Pieces(lay, ChunkOffsets(lay)))

Layouts ==
    { lay \in [top : Tops, inner : Inners, shape : Shapes, tbl : Tables,
               old : 1..Len(ItemLists)] :
        \* a file without an ilst has one old item list: none
        /\ (~ShapeHasIlst(lay.shape)) => lay.old = 1
        /\ lay.old <= 2 }

NoMoovLayouts ==
    [top : NoMoovTops, inner : {"trak_udta"}, shape : {"none"}, tbl : {"stco"}, old : {1}]

\* a whole file to break: ftyp | moov{mvhd, trak, udta{meta{hdlr, ilst}}} | mdat
SoundLayout ==
    [top |-> <<"moov", "mdat">>, inner |-> "trak_udta", shape |-> "hdlr_ilst",
     tbl |-> "stco", old |-> 2]

\* files on which planning fails: a cut first head, a first box that is not
\* ftyp, a brand outside the list, a cut head and a size below 8 behind the
\* last box, and a moov whose child has a size below 8
PlanFailFiles ==
    LET whole == Build(SoundLayout)
        tail  == SubSeq(whole, Len(FtypBytes) + 1, Len(whole))
    IN  { SubSeq(FtypBytes, 1, 4),
          Box(FREE, <<1>>) \o whole,
          Box(FILE_TYPE, <<109, 112, 52, 50>>) \o tail,
          whole \o <<0, 0, 0>>,
          whole \o <<0, 0, 0, 4>> \o FREE,
          FtypBytes \o Box(MOVIE, <<0, 0, 0, 4>> \o FREE) \o Box(MEDIA_DATA, <<201>>) }

-----------------------------------------------------------------------------
(* The head codec and the bounds finder of atom/mod.rs.                     *)
(* A head, and the bounds made of it, is [err, pos, len, hl, fourcc]: the   *)
(* box starts at pos, is len bytes long and its head takes hl bytes.        *)

NoHead(e) == [err |-> e, pos |-> 0, len |-> 0, hl |-> 0, fourcc |-> <<>>]

\* parse_head(reader) with the reader at offset pos: 4 bytes size, 4 bytes
\* fourcc; size 1: a 64-bit size follows; size 0: the box runs to the end of
\* the stream
parse_head(f, pos) ==
    IF pos + 8 > Len(f) THEN NoHead("Io")
    ELSE LET size == ReadU32(f, pos)
             fcc  == Bytes(f, pos + 4, 4)
         IN  IF size = 1
             THEN IF pos + 16 > Len(f) THEN NoHead("Io")
                  ELSE IF ReadU64(f, pos + 8) < 16 THEN NoHead("Parsing")
                  ELSE [err |-> "ok", pos |-> pos, len |-> ReadU64(f, pos + 8),
                        hl |-> 16, fourcc |-> fcc]
             ELSE IF size = 0
             THEN [err |-> "ok", pos |-> pos, len |-> Len(f) - pos, hl |-> 8, fourcc |-> fcc]
             ELSE IF size < 8 THEN NoHead("Parsing")
             ELSE [err |-> "ok", pos |-> pos, len |-> size, hl |-> 8, fourcc |-> fcc]

\* AtomBounds: derived fields
End(b) == b.pos + b.len
ContentPos(b) == b.pos + b.hl
ContentLen(b) == b.len - b.hl
Ext(b) == b.hl = 16

\* The loop every container runs over its content:
\*   while parsed_bytes < len { head = parse_head(reader)?; <child>;
\*                              parsed_bytes += head.len() }
\* with the reader left at the end of each child: the heads it meets.
RECURSIVE Sweep(_, _, _, _)
Sweep(f, pos, parsed, len) ==
    IF parsed >= len THEN [err |-> "ok", boxes |-> <<>>]
    ELSE Let(parse_head(f, pos), LAMBDA h :
         IF h.err # "ok" THEN [err |-> h.err, boxes |-> <<>>]
         ELSE Let(Sweep(f, pos + h.len, parsed + h.len, len), LAMBDA rest :
              [err |-> rest.err, boxes |-> <<h>> \o rest.boxes]))

\* the children named fourcc, in file order
Named(boxes, fourcc) ==
    LET Is(b) == b.fourcc = fourcc IN SelectSeq(boxes, Is)

\* an Option field assigned at each match keeps the last match
LastOf(s) == IF s = <<>> THEN <<>> ELSE <<s[Len(s)]>>

\* Vec::first / Iterator::find as an Option
FirstOf(s) == IF s = <<>> THEN <<>> ELSE <<s[1]>>

\* the find (parse) run on every box of a list, in order
Found(boxes, F(_)) == [i \in 1..Len(boxes) |-> F(boxes[i])]

\* the first error among results, "ok" when there is none
RECURSIVE FirstErr(_)
FirstErr(rs) ==
    IF rs = <<>> THEN "ok"
    ELSE IF Head(rs).err # "ok" THEN Head(rs).err ELSE FirstErr(Tail(rs))

\* Stbl::find: the bounds of stbl and of its stco and co64 children
Stbl_find(f, h) ==
    Let(Sweep(f, ContentPos(h), 0, ContentLen(h)), LAMBDA sw :
    [err |-> sw.err, bounds |-> h,
     stco |-> LastOf(Named(sw.boxes, SAMPLE_TABLE_CHUNK_OFFSET)),
     co64 |-> LastOf(Named(sw.boxes, SAMPLE_TABLE_CHUNK_OFFSET_64))])

\* Minf::find
Minf_find(f, h) ==
    Let(Sweep(f, ContentPos(h), 0, ContentLen(h)), LAMBDA sw :
    Let(Found(LastOf(Named(sw.boxes, SAMPLE_TABLE)), LAMBDA c : Stbl_find(f, c)), LAMBDA stbl :
    [err |-> IF sw.err # "ok" THEN sw.err ELSE FirstErr(stbl),
     bounds |-> h, stbl |-> stbl]))

\* Mdia::find
Mdia_find(f, h) ==
    Let(Sweep(f, ContentPos(h), 0, ContentLen(h)), LAMBDA sw :
    Let(Found(LastOf(Named(sw.boxes, MEDIA_INFORMATION)), LAMBDA c : Minf_find(f, c)), LAMBDA minf :
    [err |-> IF sw.err # "ok" THEN sw.err ELSE FirstErr(minf),
     bounds |-> h, minf |-> minf]))

\* Trak::find_atom: tkhd is parsed, tref and mdia are searched, every other
\* child is skipped by its content length
Trak_find(f, h) ==
    Let(Sweep(f, ContentPos(h), 0, ContentLen(h)), LAMBDA sw :
    Let(Found(LastOf(Named(sw.boxes, MEDIA)), LAMBDA c : Mdia_find(f, c)), LAMBDA mdia :
    [err |-> IF sw.err # "ok" THEN sw.err ELSE FirstErr(mdia),
     bounds |-> h, mdia |-> mdia]))

\* Meta::find: a full box (version and flags first), then hdlr and ilst
Meta_find(f, h) ==
    Let(Sweep(f, ContentPos(h) + 4, 0, ContentLen(h) - 4), LAMBDA sw :
    [err |-> sw.err, bounds |-> h,
     hdlr |-> LastOf(Named(sw.boxes, HANDLER_REFERENCE)),
     ilst |-> LastOf(Named(sw.boxes, ITEM_LIST))])

\* Udta::find
Udta_find(f, h) ==
    Let(Sweep(f, ContentPos(h), 0, ContentLen(h)), LAMBDA sw :
    Let(Found(LastOf(Named(sw.boxes, METADATA)), LAMBDA c : Meta_find(f, c)), LAMBDA meta :
    [err |-> IF sw.err # "ok" THEN sw.err ELSE FirstErr(meta),
     bounds |-> h, meta |-> meta]))

\* Moov::find: the bounds of moov, of every trak and of udta
Moov_find(f, h) ==
    Let(Sweep(f, ContentPos(h), 0, ContentLen(h)), LAMBDA sw :
    Let(Found(Named(sw.boxes, TRACK), LAMBDA t : Trak_find(f, t)), LAMBDA trak :
    Let(Found(LastOf(Named(sw.boxes, USER_DATA)), LAMBDA c : Udta_find(f, c)), LAMBDA udta :
    [err |-> IF sw.err # "ok" THEN sw.err ELSE FirstErr(trak \o udta),
     bounds |-> h, trak |-> trak, udta |-> udta])))

\* Mdat::find: the bounds of mdat
Mdat_find(f, h) == [err |-> "ok", bounds |-> h]

-----------------------------------------------------------------------------
(* Reading: Ftyp::parse, the item list, read_tag_from of atom/mod.rs.       *)

\* s.starts_with(prefix)
StartsWith(s, prefix) == Len(s) >= Len(prefix) /\ SubSeq(s, 1, Len(prefix)) = prefix

\* a defect of IsValidFiletype: every brand is taken
IsValidFiletype_any(s) == TRUE

IsValidFiletype(s) == \E i \in 1..Len(VALID_FILE_TYPES) : StartsWith(s, VALID_FILE_TYPES[i])

\* Ftyp::parse: the first box must be ftyp; its content is the brand string,
\* which must start with a supported brand
Ftyp_parse(f) ==
    Let(parse_head(f, 0), LAMBDA h :
    IF h.err # "ok" THEN [err |-> h.err, brand |-> <<>>, end |-> 0]
    ELSE IF h.fourcc # FILE_TYPE THEN [err |-> "NoTag", brand |-> <<>>, end |-> 0]
    ELSE IF End(h) > Len(f) THEN [err |-> "Io", brand |-> <<>>, end |-> 0]
    ELSE Let(Bytes(f, ContentPos(h), ContentLen(h)), LAMBDA brand :
         IF ~IsValidFiletype(brand)
         THEN [err |-> "InvalidFiletype", brand |-> brand, end |-> 0]
         ELSE [err |-> "ok", brand |-> brand, end |-> End(h)]))

\* a data atom's value: the 32-bit type code, the locale skipped, the payload
Data_parse(f, h) ==
    [code |-> U32At(f, ContentPos(h)),
     payload |-> Bytes(f, ContentPos(h) + 8, ContentLen(h) - 8)]

\* a MetaItem: the box's fourcc and the values of its data atoms
MetaItem_parse(f, h) ==
    Let(Sweep(f, ContentPos(h), 0, ContentLen(h)), LAMBDA sw :
    [err |-> sw.err,
     item |-> [ident |-> h.fourcc,
               data |-> Found(Named(sw.boxes, DATA), LAMBDA d : Data_parse(f, d))]])

\* Ilst::parse: every child of ilst is an item, kept in file order
Ilst_parse(f, h) ==
    Let(Sweep(f, ContentPos(h), 0, ContentLen(h)), LAMBDA sw :
    Let(Found(sw.boxes, LAMBDA b : MetaItem_parse(f, b)), LAMBDA ps :
    [err |-> IF sw.err # "ok" THEN sw.err ELSE FirstErr(ps),
     items |-> [i \in 1..Len(ps) |-> ps[i].item]]))

\* Moov::parse, as far as the tag needs it: the items of moov/udta/meta/ilst,
\* none when a box of that path is absent (unwrap_or_default)
Moov_parse(f, h) ==
    Let(Moov_find(f, h), LAMBDA m :
    LET meta == IF m.udta = <<>> THEN <<>> ELSE m.udta[1].meta
        ilst == IF meta = <<>> THEN <<>> ELSE meta[1].ilst
    IN  IF m.err # "ok" THEN [err |-> m.err, items |-> <<>>]
        ELSE IF ilst = <<>> THEN [err |-> "ok", items |-> <<>>]
        ELSE Ilst_parse(f, ilst[1]))

\* the loop of read_tag_from: the first moov is parsed, every other box is
\* skipped; no moov before the end of the stream is AtomNotFound(moov)
RECURSIVE read_tag_loop(_, _, _, _)
read_tag_loop(f, pos, parsed, len) ==
    IF parsed >= len THEN [err |-> "AtomNotFound_moov", items |-> <<>>]
    ELSE Let(parse_head(f, pos), LAMBDA h :
         IF h.err # "ok" THEN [err |-> h.err, items |-> <<>>]
         ELSE IF h.fourcc = MOVIE THEN Moov_parse(f, h)
         ELSE read_tag_loop(f, pos + h.len, parsed + h.len, len))

read_tag_from(f) ==
    Let(Ftyp_parse(f), LAMBDA ftyp :
    IF ftyp.err # "ok" THEN [err |-> ftyp.err, items |-> <<>>]
    ELSE read_tag_loop(f, ftyp.end, 0, Len(f) - ftyp.end))

-----------------------------------------------------------------------------
(* write_tag_to of atom/mod.rs: planning.                                   *)

\* the top-level sweep of write_tag_to (lines 225-237): every moov is
\* searched when it is met, the last moov and the last mdat are kept
TopSweep(f, start) ==
    Let(Sweep(f, start, 0, Len(f) - start), LAMBDA sw :
    Let(Found(Named(sw.boxes, MOVIE), LAMBDA b : Moov_find(f, b)), LAMBDA finds :
    [err  |-> FirstErr(finds \o <<sw>>),
     moov |-> LastOf(finds),
     mdat |-> LastOf(Found(Named(sw.boxes, MEDIA_DATA), LAMBDA b : Mdat_find(f, b)))]))

NoPlan ==
    [err |-> "none", new_atoms_start |-> 0, moved_data_start |-> 0, len_diff |-> 0,
     update_atoms |-> <<>>, new_udta |-> <<>>, new_meta |-> <<>>, new_hdlr |-> <<>>,
     new_ilst |-> <<>>, new_atom_len |-> 0, mdat_pos |-> 0, moov |-> <<>>,
     old_file_len |-> 0, moved_data |-> <<>>]

Failed(e) == [NoPlan EXCEPT !.err = e]

\* a defect of ShiftsOffsets: the tables are shifted wherever mdat lies
ShiftsOffsets_always(mdat_pos, moov_pos) == TRUE

\* the chunk offset shift is made only when the (last) mdat lies behind moov
ShiftsOffsets(mdat_pos, moov_pos) == mdat_pos > moov_pos

\* a defect of NewHdlr: a handler is created whether or not meta has one
NewHdlr_always(hdlr) == <<Meta_hdlr>>

\* a defect of LenDiff: the length of the old ilst is not taken off
LenDiff_keeps_old(ilst, new_atom_len) == new_atom_len

\* lines 261-263: if hdlr.is_none() { new_hdlr = Some(Meta::hdlr()) }
NewHdlr(hdlr) == IF hdlr = <<>> THEN <<Meta_hdlr>> ELSE <<>>

\* lines 264-268 and 305: len_diff -= ilst.len() when there is an ilst, then
\* len_diff += new_atom_len
LenDiff(ilst, new_atom_len) == (IF ilst = <<>> THEN 0 ELSE 0 - ilst[1].len) + new_atom_len

\* lines 246-305: the anchors, the boxes to create and len_diff
PlanFor(moov, mdat_pos, atoms) ==
    LET udta == moov.udta
        meta == IF udta = <<>> THEN <<>> ELSE udta[1].meta
        hdlr == IF meta = <<>> THEN <<>> ELSE meta[1].hdlr
        ilst == IF meta = <<>> THEN <<>> ELSE meta[1].ilst
        hdlr0 == NewHdlr(hdlr)
        \* match meta: None => new_meta takes new_hdlr
        meta0 == IF meta = <<>>
                 THEN << [hdlr |-> hdlr0, ilst |-> <<atoms>>] >> ELSE <<>>
        hdlr1 == IF meta = <<>> THEN <<>> ELSE hdlr0
        \* match udta: None => new_udta takes new_meta
        udta1 == IF udta = <<>> THEN << [meta |-> meta0] >> ELSE <<>>
        meta1 == IF udta = <<>> THEN <<>> ELSE meta0
        start == IF udta = <<>> THEN End(moov.bounds)
                 ELSE IF meta = <<>> THEN End(udta[1].bounds)
                 ELSE IF ilst = <<>> THEN End(meta[1].bounds)
                 ELSE ilst[1].pos
        moved == IF udta = <<>> THEN End(moov.bounds)
                 ELSE IF meta = <<>> THEN End(udta[1].bounds)
                 ELSE IF ilst = <<>> THEN End(meta[1].bounds)
                 ELSE End(ilst[1])
        newlen == IF udta1 # <<>> THEN Udta_len(udta1[1])
                  ELSE IF meta1 # <<>> THEN Meta_len(meta1[1])
                  ELSE Hdlr_len_or_zero(hdlr1) + Ilst_len(atoms)
    IN  [err |-> "ok",
         new_atoms_start |-> start,
         moved_data_start |-> moved,
         len_diff |-> LenDiff(ilst, newlen),
         update_atoms |-> (IF meta = <<>> THEN <<>> ELSE <<meta[1].bounds>>)
                            \o (IF udta = <<>> THEN <<>> ELSE <<udta[1].bounds>>)
                            \o <<moov.bounds>>,
         new_udta |-> udta1, new_meta |-> meta1, new_hdlr |-> hdlr1,
         new_ilst |-> atoms, new_atom_len |-> newlen,
         mdat_pos |-> mdat_pos, moov |-> <<moov>>,
         old_file_len |-> 0, moved_data |-> <<>>]

\* lines 215-305: Ftyp::parse, the sweep, the missing moov, the plan
write_tag_plan(f, atoms) ==
    Let(Ftyp_parse(f), LAMBDA ftyp :
    IF ftyp.err # "ok" THEN Failed(ftyp.err)
    ELSE Let(TopSweep(f, ftyp.end), LAMBDA top :
         IF top.err # "ok" THEN Failed(top.err)
         ELSE IF top.moov = <<>> THEN Failed("AtomNotFound_moov")
         ELSE PlanFor(top.moov[1],
                      IF top.mdat = <<>> THEN 0 ELSE top.mdat[1].bounds.pos,
                      atoms)))

-----------------------------------------------------------------------------
(* write_tag_to of atom/mod.rs: execution.                                  *)

\* Co64::parse_atom: version 0 only, the entry count must match the content
\* length, then the 64-bit offsets in file order; table_pos is where the
\* entries start
Co64_parse(f, b) ==
    LET cp      == ContentPos(b)
        version == f[cp + 1]
        entries == U32At(f, cp + 4)
    IN  IF version # 0 THEN [err |-> "UnknownVersion", table_pos |-> 0, offsets |-> <<>>]
        ELSE IF 8 + 8 * entries # ContentLen(b)
        THEN [err |-> "Parsing", table_pos |-> 0, offsets |-> <<>>]
        ELSE [err |-> "ok", table_pos |-> cp + 8,
              offsets |-> [i \in 1..entries |-> Wrapped64At(f, cp + 8 + 8 * (i - 1))]]

\* Stco::parse: the same with 32-bit offsets
Stco_parse(f, b) ==
    LET cp      == ContentPos(b)
        version == f[cp + 1]
        entries == U32At(f, cp + 4)
    IN  IF version # 0 THEN [err |-> "UnknownVersion", table_pos |-> 0, offsets |-> <<>>]
        ELSE IF 8 + 4 * entries # ContentLen(b)
        THEN [err |-> "Parsing", table_pos |-> 0, offsets |-> <<>>]
        ELSE [err |-> "ok", table_pos |-> cp + 8,
              offsets |-> [i \in 1..entries |-> Wrapped32At(f, cp + 8 + 4 * (i - 1))]]

\* line 329: (*co as i64 + len_diff) as u32, written big-endian
ShiftStco(co, len_diff) == BE32(co + len_diff)

\* line 340: (*co as i64 + len_diff) as u64, written big-endian
ShiftCo64(co, len_diff) == BE64(co + len_diff)

\* a defect of AdjustStco: the entries are written from the entry count on
AdjustStco_from_count(f, stbl, len_diff) ==
    IF stbl.stco = <<>> THEN [err |-> "ok", file |-> f]
    ELSE Let(Stco_parse(f, stbl.stco[1]), LAMBDA t :
         IF t.err # "ok" THEN [err |-> t.err, file |-> f]
         ELSE [err |-> "ok",
               file |-> WriteAt(f, t.table_pos - 4,
                            Concat([i \in 1..Len(t.offsets) |->
                                       ShiftStco(t.offsets[i], len_diff)]))])

\* lines 323-333: the stco table of one stbl rewritten in place
AdjustStco(f, stbl, len_diff) ==
    IF stbl.stco = <<>> THEN [err |-> "ok", file |-> f]
    ELSE Let(Stco_parse(f, stbl.stco[1]), LAMBDA t :
         IF t.err # "ok" THEN [err |-> t.err, file |-> f]
         ELSE [err |-> "ok",
               file |-> WriteAt(f, t.table_pos,
                            Concat([i \in 1..Len(t.offsets) |->
                                       ShiftStco(t.offsets[i], len_diff)]))])

\* lines 334-344: the co64 table of one stbl rewritten in place
AdjustCo64(f, stbl, len_diff) ==
    IF stbl.co64 = <<>> THEN [err |-> "ok", file |-> f]
    ELSE Let(Co64_parse(f, stbl.co64[1]), LAMBDA t :
         IF t.err # "ok" THEN [err |-> t.err, file |-> f]
         ELSE [err |-> "ok",
               file |-> WriteAt(f, t.table_pos,
                            Concat([i \in 1..Len(t.offsets) |->
                                       ShiftCo64(t.offsets[i], len_diff)]))])

\* line 318: the stbl of every trak that has mdia/minf/stbl
RECURSIVE StblAtoms(_)
StblAtoms(traks) ==
    IF traks = <<>> THEN <<>>
    ELSE LET t    == Head(traks)
             minf == IF t.mdia = <<>> THEN <<>> ELSE t.mdia[1].minf
             stbl == IF minf = <<>> THEN <<>> ELSE minf[1].stbl
         IN  stbl \o StblAtoms(Tail(traks))

\* lines 322-345: for stbl in stbl_atoms { stco; co64 }, an error returns
RECURSIVE AdjustAll(_, _, _)
AdjustAll(f, stbls, len_diff) ==
    IF stbls = <<>> THEN [err |-> "ok", file |-> f]
    ELSE Let(AdjustStco(f, Head(stbls), len_diff), LAMBDA a :
         IF a.err # "ok" THEN a
         ELSE Let(AdjustCo64(a.file, Head(stbls), len_diff), LAMBDA b :
              IF b.err # "ok" THEN b
              ELSE AdjustAll(b.file, Tail(stbls), len_diff)))

\* lines 349-359: the size field of one existing box rewritten
UpdateLen(f, a, len_diff) ==
    IF Ext(a)
    THEN WriteAt(WriteAt(f, a.pos, BE32(1)), a.pos + 8, BE64(a.len + len_diff))
    ELSE WriteAt(f, a.pos, BE32(a.len + len_diff))

\* for a in update_atoms.iter().rev()
RECURSIVE UpdateLens(_, _, _)
UpdateLens(f, atoms, len_diff) ==
    IF atoms = <<>> THEN f
    ELSE UpdateLens(UpdateLen(f, atoms[Len(atoms)], len_diff),
                    SubSeq(atoms, 1, Len(atoms) - 1), len_diff)

\* a defect of MovedDataPos: the trailer is written back where it was read
MovedDataPos_unshifted(moved_data_start, len_diff) == moved_data_start

\* line 379: the trailer goes to (moved_data_start as i64 + len_diff) as u64
MovedDataPos(moved_data_start, len_diff) == moved_data_start + len_diff

\* a defect of NewAtoms: the bare hdlr is written behind the ilst
NewAtoms_hdlr_last(p) ==
    IF p.new_udta # <<>> THEN Udta_write(p.new_udta[1])
    ELSE IF p.new_meta # <<>> THEN Meta_write(p.new_meta[1])
    ELSE Ilst_write(p.new_ilst)
            \o (IF p.new_hdlr = <<>> THEN <<>> ELSE Hdlr_write(p.new_hdlr[1]))

\* lines 367-376: the bytes of the new subtree
NewAtoms(p) ==
    IF p.new_udta # <<>> THEN Udta_write(p.new_udta[1])
    ELSE IF p.new_meta # <<>> THEN Meta_write(p.new_meta[1])
    ELSE (IF p.new_hdlr = <<>> THEN <<>> ELSE Hdlr_write(p.new_hdlr[1]))
            \o Ilst_write(p.new_ilst)

-----------------------------------------------------------------------------
(* The template driven reader and rewriter of atom.rs (the older            *)
(* generation of the code).  The reader is a position in the file; every    *)
(* result carries the position the reader is left at.                       *)

MEDIA_HEADER == <<109, 100, 104, 100>>   \* mdhd

\* Content: Atoms(v) | RawData(d) | TypedData(d) | Empty; a template
\* (ContentT) is the same shape without data
Content_Atoms(v) == [kind |-> "atoms", atoms |-> v, code |-> 0, bytes |-> <<>>]
Content_RawData(b) == [kind |-> "raw", atoms |-> <<>>, code |-> 0, bytes |-> b]
Content_TypedData(c, b) == [kind |-> "typed", atoms |-> <<>>, code |-> c, bytes |-> b]
Content_Empty == [kind |-> "empty", atoms |-> <<>>, code |-> 0, bytes |-> <<>>]

\* Atom::with / AtomT::with
Atom_with(ident, offset, content) == [ident |-> ident, offset |-> offset, content |-> content]

\* ContentT::data_atom_t(): Atoms([AtomT::data_atom()])
data_atom_t == Content_Atoms(<<Atom_with(DATA, 0, Content_TypedData(0, <<>>))>>)

\* filetype_atom(): ftyp with raw UTF-8 data
filetype_atom == Atom_with(FILE_TYPE, 0, Content_RawData(<<>>))

\* metadata_atom(): the hierarchy read_tag_from parses; of the item
\* templates the model keeps the three its item lists use
metadata_atom ==
    Atom_with(MOVIE, 0, Content_Atoms(<<
        Atom_with(TRACK, 0, Content_Atoms(<<
            Atom_with(MEDIA, 0, Content_Atoms(<<
                Atom_with(MEDIA_HEADER, 0, Content_RawData(<<>>)) >>)) >>)),
        Atom_with(USER_DATA, 0, Content_Atoms(<<
            Atom_with(METADATA, 4, Content_Atoms(<<
                Atom_with(ITEM_LIST, 0, Content_Atoms(<<
                    Atom_with(ARTIST, 0, data_atom_t),
                    Atom_with(COMPILATION, 0, data_atom_t),
                    Atom_with(TITLE, 0, data_atom_t) >>)) >>)) >>)) >>))

\* item_list_atom_t(): the path write_tag_to descends, moov/udta/meta/ilst
item_list_atom_t ==
    Atom_with(MOVIE, 0, Content_Atoms(<<
        Atom_with(USER_DATA, 0, Content_Atoms(<<
            Atom_with(METADATA, 4, Content_Atoms(<<
                Atom_with(ITEM_LIST, 0, Content_Atoms(<<>>)) >>)) >>)) >>))

RECURSIVE Sum(_)
Sum(ns) == IF ns = <<>> THEN 0 ELSE Head(ns) + Sum(Tail(ns))

\* Atom::len and Content::len
RECURSIVE Atom_len(_)
RECURSIVE Content_len(_)
Content_len(c) ==
    CASE c.kind = "atoms" -> Sum([i \in 1..Len(c.atoms) |-> Atom_len(c.atoms[i])])
      [] c.kind = "raw"   -> Len(c.bytes)
      [] c.kind = "typed" -> 8 + Len(c.bytes)
      [] c.kind = "empty" -> 0

Atom_len(a) == 8 + a.offset + Content_len(a.content)

\* Atom::write_to and Content::write_to: the length as u32, the ident,
\* `offset` zero bytes, the content; typed data is the type code, four zero
\* bytes and the payload
RECURSIVE Atom_write_to(_)
RECURSIVE Content_write_to(_)
Content_write_to(c) ==
    CASE c.kind = "atoms" -> Concat([i \in 1..Len(c.atoms) |-> Atom_write_to(c.atoms[i])])
      [] c.kind = "raw"   -> c.bytes
      [] c.kind = "typed" -> BE32(c.code) \o <<0, 0, 0, 0>> \o c.bytes
      [] c.kind = "empty" -> <<>>

Atom_write_to(a) ==
    BE32(Atom_len(a)) \o a.ident \o [i \in 1..a.offset |-> 0] \o Content_write_to(a.content)

\* the atoms a caller hands to write_tag_to for an item list: per item an
\* atom holding one data atom (Atom::data_atom_with) per value
ItemAtoms(its) ==
    [i \in 1..Len(its) |->
        Atom_with(its[i].ident, 0,
            Content_Atoms([j \in 1..Len(its[i].data) |->
                Atom_with(DATA, 0,
                    Content_TypedData(its[i].data[j].code, its[i].data[j].payload))]))]

\* crate::Result: Ok(val) or Err(kind(arg), description), with the reader
\* position
Ok(val, pos) == [err |-> "ok", arg |-> <<>>, desc |-> "", val |-> val, pos |-> pos]
Err(kind, arg, desc, pos) == [err |-> kind, arg |-> arg, desc |-> desc, val |-> <<>>, pos |-> pos]

\* a defect of parse_head: a short read is reported as a Parsing error
parse_head_short_is_parsing(f, pos) ==
    IF pos + 8 > Len(f) THEN Err("Parsing", <<>>, "Error reading atom length", pos)
    ELSE Ok([len |-> ReadU32(f, pos), ident |-> Bytes(f, pos + 4, 4)], pos + 8)

\* parse_head (atom.rs): read_u32 then read_exact of four bytes; a short
\* read is an Io error (unexpected end of file); no size is special
\* char::from(b) for the bytes identifiers are made of; the copyright sign
\* (byte 169) is written (c)
Chr(b) ==
    IF b \in 97..122 THEN SubSeq("abcdefghijklmnopqrstuvwxyz", b - 96, b - 96)
    ELSE IF b \in 65..90 THEN SubSeq("ABCDEFGHIJKLMNOPQRSTUVWXYZ", b - 64, b - 64)
    ELSE IF b \in 48..57 THEN SubSeq("0123456789", b - 47, b - 47)
    ELSE IF b = 32 THEN " "
    ELSE IF b = 169 THEN "(c)"
    ELSE "?"

\* Display for Ident, lines 100-104: the four bytes as characters
IdentName(ident) == Chr(ident[1]) \o Chr(ident[2]) \o Chr(ident[3]) \o Chr(ident[4])

\* format!("Error reading {}: {}", ident, e.description) on an error
ErrorReading(ident, r) ==
    [r EXCEPT !.desc = "Error reading " \o IdentName(ident) \o ": " \o r.desc]

atom_rs_parse_head(f, pos) ==
    IF pos + 4 > Len(f) THEN Err("Io", <<>>, "Error reading atom length", pos)
    ELSE IF pos + 8 > Len(f) THEN Err("Io", <<>>, "Error reading atom identifier", pos + 4)
    ELSE Ok([len |-> ReadU32(f, pos), ident |-> Bytes(f, pos + 4, 4)], pos + 8)

\* the first template whose ident is the one read (for a in atoms ... break)
Matching(tpls, ident) ==
    LET Is(t) == t.ident = ident IN FirstOf(SelectSeq(tpls, Is))

RECURSIVE parse_atoms_from(_, _, _, _, _, _)
RECURSIVE parse_content(_, _, _, _)
RECURSIVE ContentT_parse(_, _, _, _)

\* ContentT::parse(reader, length)
ContentT_parse(c, f, pos, length) ==
    CASE c.kind = "atoms" ->
            Let(parse_atoms_from(c.atoms, f, pos, 0, length, <<>>), LAMBDA r :
                IF r.err # "ok" THEN r ELSE Ok(Content_Atoms(r.val), r.pos))
      [] c.kind = "raw" ->
            IF pos + length > Len(f) THEN Err("Io", <<>>, "Error reading data", pos)
            ELSE Ok(Content_RawData(Bytes(f, pos, length)), pos + length)
      [] c.kind = "typed" ->
            IF length < 8 THEN Err("Parsing", <<>>, "Typed data head to short", pos)
            ELSE IF pos + 4 > Len(f)
            THEN Err("Io", <<>>, "Error reading typed data head", pos)
            ELSE IF pos + length > Len(f) THEN Err("Io", <<>>, "Error reading data", pos + 8)
            ELSE Ok(Content_TypedData(U32At(f, pos), Bytes(f, pos + 8, length - 8)),
                    pos + length)
      [] c.kind = "empty" -> Ok(Content_Empty, pos)

\* AtomT::parse_content: the reader stands behind the head of an atom of
\* `length` bytes
parse_content(t, f, pos, length) ==
    IF length > 8
    THEN ContentT_parse(t.content, f, pos + t.offset, length - 8 - t.offset)
    ELSE Ok(Content_Empty, pos)

\* AtomT::parse_atoms: the loop, with parsed_bytes and parsed_atoms so far
parse_atoms_from(tpls, f, pos, parsed_bytes, length, parsed_atoms) ==
    IF parsed_bytes >= length THEN Ok(parsed_atoms, pos)
    ELSE Let(atom_rs_parse_head(f, pos), LAMBDA h :
         IF h.err # "ok" THEN h
         ELSE Let(Matching(tpls, h.val.ident), LAMBDA a :
              IF a # <<>>
              THEN Let(parse_content(a[1], f, h.pos, h.val.len), LAMBDA c :
                   IF c.err # "ok" THEN ErrorReading(h.val.ident, c)
                   ELSE parse_atoms_from(tpls, f, c.pos, parsed_bytes + h.val.len, length,
                            Append(parsed_atoms, Atom_with(a[1].ident, a[1].offset, c.val))))
              ELSE parse_atoms_from(tpls, f,
                       IF h.val.len > 8 THEN h.pos + (h.val.len - 8) ELSE h.pos,
                       parsed_bytes + h.val.len, length, parsed_atoms)))

parse_atoms(tpls, f, pos, length) == parse_atoms_from(tpls, f, pos, 0, length, <<>>)

\* AtomT::parse: the atom must be the one the template names
AtomT_parse(t, f, pos) ==
    Let(atom_rs_parse_head(f, pos), LAMBDA h :
    IF h.err # "ok" THEN h
    ELSE IF h.val.ident = t.ident
    THEN Let(parse_content(t, f, h.pos, h.val.len), LAMBDA c :
         IF c.err # "ok" THEN ErrorReading(h.val.ident, c)
         ELSE Ok(Atom_with(t.ident, t.offset, c.val), c.pos))
    ELSE Err("AtomNotFound", t.ident,
             "Expected " \o IdentName(t.ident) \o " found " \o IdentName(h.val.ident), h.pos))

\* a defect of check_filetype: the brand must equal a supported one
check_filetype_exact(a) ==
    IF a.content.kind = "raw"
    THEN IF \E i \in 1..Len(VALID_FILE_TYPES) : a.content.bytes = VALID_FILE_TYPES[i]
         THEN "ok" ELSE "InvalidFiletype"
    ELSE "NoTag"

\* Atom::check_filetype
check_filetype(a) ==
    IF a.content.kind = "raw"
    THEN IF IsValidFiletype(a.content.bytes) THEN "ok" ELSE "InvalidFiletype"
    ELSE "NoTag"

\* the first lines of read_tag_from and of write_tag_to:
\*   let ftyp = filetype_atom().parse(reader)?; ftyp.check_filetype()?;
parse_filetype(f) ==
    Let(AtomT_parse(filetype_atom, f, 0), LAMBDA ftyp :
    IF ftyp.err # "ok" THEN ftyp
    ELSE IF check_filetype(ftyp.val) = "InvalidFiletype"
    THEN Err("InvalidFiletype", ftyp.val.content.bytes, "Invalid filetype.", ftyp.pos)
    ELSE IF check_filetype(ftyp.val) = "NoTag"
    THEN Err("NoTag", <<>>, "No filetype atom found.", ftyp.pos)
    ELSE ftyp)

\* Atom::child and Atom::first_child, as Options
Atom_child(a, ident) ==
    LET Is(c) == c.ident = ident IN FirstOf(SelectSeq(a.content.atoms, Is))

Atom_first_child(a) == FirstOf(a.content.atoms)

\* the tag atoms of a parsed moov: udta / first child / first child
tag_atoms_of(moov) ==
    LET udta == Atom_child(moov, USER_DATA)
        meta == IF udta = <<>> THEN <<>> ELSE Atom_first_child(udta[1])
        ilst == IF meta = <<>> THEN <<>> ELSE Atom_first_child(meta[1])
    IN  IF ilst = <<>> THEN <<>> ELSE ilst[1].content.atoms

\* read_tag_from (atom.rs)
atom_rs_read_tag_from(f) ==
    Let(parse_filetype(f), LAMBDA ftyp :
    IF ftyp.err # "ok" THEN ftyp
    ELSE Let(parse_atoms(<<metadata_atom>>, f, ftyp.pos, Len(f) - ftyp.pos), LAMBDA m :
         IF m.err # "ok" THEN m
         ELSE IF m.val = <<>> THEN Err("AtomNotFound", MOVIE, "No moov atom found", m.pos)
         ELSE Ok(tag_atoms_of(m.val[1]), m.pos)))

\* the loop of write_tag_to: while let Ok((length, ident)) = parse_head(..);
\* the (pos, len) of every atom of the path that was met, outermost first
RECURSIVE find_destination(_, _, _, _)
find_destination(f, pos, destination, atom_pos_and_len) ==
    Let(atom_rs_parse_head(f, pos), LAMBDA h :
    IF h.err # "ok" THEN atom_pos_and_len
    ELSE IF h.val.ident = destination.ident
    THEN IF Atom_first_child(destination) = <<>>
         THEN Append(atom_pos_and_len, [pos |-> h.pos - 8, len |-> h.val.len])
         ELSE find_destination(f, h.pos + destination.offset,
                  Atom_first_child(destination)[1],
                  Append(atom_pos_and_len, [pos |-> h.pos - 8, len |-> h.val.len]))
    ELSE find_destination(f, h.pos + (h.val.len - 8), destination, atom_pos_and_len))

\* for (pos, len) in atom_pos_and_len: the length as i32 plus the difference
RECURSIVE adjust_lengths(_, _, _)
adjust_lengths(f, atom_pos_and_len, difference) ==
    IF atom_pos_and_len = <<>> THEN f
    ELSE adjust_lengths(
             WriteAt(f, Head(atom_pos_and_len).pos,
                     BE32(Head(atom_pos_and_len).len + difference)),
             Tail(atom_pos_and_len), difference)

\* what write_tag_to does once the path is known; indexing the last element
\* of an empty atom_pos_and_len panics, and so does Vec::with_capacity when
\* the innermost atom of the path ends behind the end of the file
replace_metadata(f, atoms, atom_pos_and_len) ==
    IF atom_pos_and_len = <<>> THEN [err |-> "panic", file |-> f]
    ELSE IF End(atom_pos_and_len[Len(atom_pos_and_len)]) > Len(f)
    THEN [err |-> "panic", file |-> f]
    ELSE LET last == atom_pos_and_len[Len(atom_pos_and_len)]
             metadata_position == last.pos + 8
             old_metadata_length == last.len - 8
             new_metadata_length == Sum([i \in 1..Len(atoms) |-> Atom_len(atoms[i])])
             difference == new_metadata_length - old_metadata_length
             additional_data ==
                 Bytes(f, metadata_position + old_metadata_length,
                       Len(f) - (metadata_position + old_metadata_length))
             resized == SetLen(f, Len(f) + difference)
             patched == adjust_lengths(resized, atom_pos_and_len, difference)
         IN  [err |-> "ok",
              file |-> WriteAt(patched, last.pos + 4 + 4,
                           Concat([i \in 1..Len(atoms) |-> Atom_write_to(atoms[i])])
                               \o additional_data)]

\* write_tag_to (atom.rs)
atom_rs_write_tag_to(f, atoms) ==
    Let(parse_filetype(f), LAMBDA ftyp :
    IF ftyp.err # "ok"
    THEN [err |-> ftyp.err, arg |-> ftyp.arg, pos |-> ftyp.pos, file |-> f]
    ELSE Let(replace_metadata(f, atoms, find_destination(f, ftyp.pos, item_list_atom_t, <<>>)),
             LAMBDA r : [err |-> r.err, arg |-> <<>>, pos |-> Len(f), file |-> r.file]))

-----------------------------------------------------------------------------
(* The state machine: read_tag_from and the steps of write_tag_to.          *)

NoTag == [err |-> "none", items |-> <<>>]
NoRes == [op |-> "none", err |-> "none"]

Init ==
    /\ file \in { Build(lay) : lay \in Layouts \cup NoMoovLayouts } \cup PlanFailFiles
    /\ orig = file
    /\ first = <<>>
    /\ items = <<>>
    /\ src = "none"
    /\ tag = NoTag
    /\ pc = "idle"
    /\ plan = NoPlan
    /\ res = NoRes
    /\ calls = 0

\* read_tag_from(reader) on the file as it is
ReadTag ==
    /\ pc = "idle"
    /\ tag = NoTag
    /\ tag' = read_tag_from(file)
    /\ res' = [op |-> "read", err |-> tag'.err]
    /\ UNCHANGED <<file, orig, first, items, src, pc, plan, calls>>

\* write_tag_to(file, atoms), lines 215-305: everything before the first
\* access that follows planning; an error returns
Begin(atoms, from) ==
    /\ calls < MaxCalls
    /\ calls' = calls + 1
    /\ items' = atoms
    /\ src' = from
    /\ orig' = file
    /\ plan' = write_tag_plan(file, atoms)
    /\ IF plan'.err # "ok"
       THEN /\ pc' = "done"
            /\ res' = [op |-> "write", err |-> plan'.err]
            /\ first' = IF calls = 0 THEN file ELSE first
       ELSE /\ pc' = "read_moved"
            /\ UNCHANGED <<res, first>>
    /\ UNCHANGED <<file, tag>>

\* the caller hands a list of its own
WriteNew ==
    /\ pc = "idle"
    /\ \E i \in 1..Len(ItemLists) : Begin(ItemLists[i], "new")

\* the caller hands back the items read_tag_from returned
WriteRead ==
    /\ pc = "idle"
    /\ tag.err = "ok"
    /\ Begin(tag.items, "read")

\* the caller repeats the call it made
WriteAgain ==
    /\ pc = "done"
    /\ Begin(items, src)

\* lines 307-312: the bytes from moved_data_start to the end are read
ReadMoved ==
    /\ pc = "read_moved"
    /\ plan' = [plan EXCEPT !.old_file_len = Len(file),
                            !.moved_data = Bytes(file, plan.moved_data_start,
                                                 Len(file) - plan.moved_data_start)]
    /\ pc' = "adjust"
    /\ UNCHANGED <<file, orig, first, items, src, tag, res, calls>>

\* lines 316-346: the chunk offset tables are shifted in place
AdjustOffsets ==
    /\ pc = "adjust"
    /\ LET moov == plan.moov[1]
           r == IF ShiftsOffsets(plan.mdat_pos, moov.bounds.pos)
                THEN AdjustAll(file, StblAtoms(moov.trak), plan.len_diff)
                ELSE [err |-> "ok", file |-> file]
       IN  /\ file' = r.file
           /\ IF r.err # "ok"
              THEN /\ pc' = "done"
                   /\ res' = [op |-> "write", err |-> r.err]
                   /\ first' = IF calls = 1 THEN file' ELSE first
              ELSE /\ pc' = "update"
                   /\ UNCHANGED <<res, first>>
    /\ UNCHANGED <<orig, items, src, tag, plan, calls>>

\* lines 348-359: the size fields of the existing meta, udta and moov
UpdateAtoms ==
    /\ pc = "update"
    /\ file' = UpdateLens(file, plan.update_atoms, plan.len_diff)
    /\ pc' = "set_len"
    /\ UNCHANGED <<orig, first, items, src, tag, plan, res, calls>>

\* line 362: file.set_len(old_file_len + len_diff)
SetFileLen ==
    /\ pc = "set_len"
    /\ file' = SetLen(file, plan.old_file_len + plan.len_diff)
    /\ pc' = "write_atoms"
    /\ UNCHANGED <<orig, first, items, src, tag, plan, res, calls>>

\* lines 364-376: the new subtree is written at new_atoms_start
WriteNewAtoms ==
    /\ pc = "write_atoms"
    /\ file' = WriteAt(file, plan.new_atoms_start, NewAtoms(plan))
    /\ pc' = "write_moved"
    /\ UNCHANGED <<orig, first, items, src, tag, plan, res, calls>>

\* lines 378-383: the moved data is written behind it, flush, Ok(())
WriteMoved ==
    /\ pc = "write_moved"
    /\ file' = WriteAt(file, MovedDataPos(plan.moved_data_start, plan.len_diff),
                        plan.moved_data)
    /\ pc' = "done"
    /\ res' = [op |-> "write", err |-> "ok"]
    /\ first' = IF calls = 1 THEN file' ELSE first
    /\ UNCHANGED <<orig, items, src, tag, plan, calls>>

Next ==
    \/ ReadTag
    \/ WriteNew
    \/ WriteRead
    \/ WriteAgain
    \/ ReadMoved
    \/ AdjustOffsets
    \/ UpdateAtoms
    \/ SetFileLen
    \/ WriteNewAtoms
    \/ WriteMoved

Spec == Init /\ [][Next]_vars

-----------------------------------------------------------------------------
(* The older generation (atom.rs): its inputs and its two operations.       *)

\* the content of the ftyp box: supported brands, with and without the minor
\* version and a compatible brand behind them, and brands outside the list
Brands ==
    { <<77, 52, 65, 32>>, <<77, 52, 65, 32, 0, 0, 2, 0, 105, 115, 111, 109>>,
      <<77, 52, 66, 32>>, <<77, 52, 80, 32>>, <<77, 52, 86, 32>>,
      <<105, 115, 111, 109, 0, 0, 2, 0>>,
      <<109, 112, 52, 50>>, <<77, 52, 65>>, <<32, 77, 52, 65, 32>>, <<109, 52, 97, 32>> }

\* what follows ftyp: nothing, boxes without a moov, or the boxes of a layout
AtomLayouts ==
    { lay \in Layouts :
        /\ lay.top \in { <<"moov", "mdat">>, <<"mdat", "moov">> }
        /\ lay.inner = "trak_udta" /\ lay.tbl = "stco"
        /\ lay.shape \in {"none", "udta", "meta", "ilst", "hdlr_ilst"} }

\* files whose meta has no version and flags
BareLayouts ==
    [top : { <<"moov", "mdat">>, <<"mdat", "moov">> }, inner : {"trak_udta"},
     shape : BareShapes, tbl : {"stco"}, old : {2, 3}]

AfterFtyp(lay) == SubSeq(Build(lay), Len(FtypBytes) + 1, Len(Build(lay)))

Tails ==
    { AfterFtyp(lay) : lay \in AtomLayouts \cup NoMoovLayouts \cup BareLayouts }

\* inputs that are no well-formed file: the empty input, a cut head, a first
\* box that is not ftyp, a ftyp without content, a ftyp cut in its content
Malformed ==
    { SubSeq(FtypBytes, 1, n) : n \in 0..7 }
        \cup { SubSeq(FtypBytes, 1, 12) }
        \cup { Box(FILE_TYPE, <<>>) \o t : t \in Tails }
        \cup { t \in Tails : t # <<>> }
        \cup { Box(FREE, <<1>>) \o FtypBytes \o t : t \in Tails }

AtomFiles == { Box(FILE_TYPE, b) \o t : b \in Brands, t \in Tails } \cup Malformed

InitAtom ==
    /\ file \in AtomFiles
    /\ orig = file
    /\ first = <<>>
    /\ items = <<>>
    /\ src = "none"
    /\ tag = NoTag
    /\ pc = "idle"
    /\ plan = NoPlan
    /\ res = NoRes
    /\ calls = 0

\* read_tag_from(reader) of atom.rs on the file as it is
AtomRead ==
    /\ tag = NoTag
    /\ tag' = atom_rs_read_tag_from(file)
    /\ res' = [op |-> "read", err |-> tag'.err, arg |-> tag'.arg, pos |-> tag'.pos]
    /\ orig' = file
    /\ pc' = "done"
    /\ UNCHANGED <<file, first, items, src, plan, calls>>

\* what a finished write_tag_to of atom.rs leaves
AtomWritten(atoms, r) ==
    /\ file' = r.file
    /\ res' = [op |-> "write", err |-> r.err, arg |-> r.arg, pos |-> r.pos]
    /\ orig' = file
    /\ items' = atoms
    /\ calls' = calls + 1
    /\ pc' = "done"
    /\ UNCHANGED <<first, src, tag, plan>>

\* write_tag_to(file, atoms) of atom.rs with a list of the caller
AtomWrite ==
    /\ calls < MaxCalls
    /\ \E i \in 1..Len(ItemLists) :
           AtomWritten(ItemLists[i], atom_rs_write_tag_to(file, ItemAtoms(ItemLists[i])))

NextAtom ==
    \/ AtomRead
    \/ AtomWrite

SpecAtom == InitAtom /\ [][NextAtom]_vars

-----------------------------------------------------------------------------
(* The arithmetic of the rewriters on sizes and chunk offsets near the      *)
(* limits of their width.  A box of four gigabytes cannot be held as a      *)
(* sequence, so the steps that patch a size field or a table are run on the *)
(* bytes they read and write: the head of an ancestor, or one stbl box.     *)

\* the differences in length the item lists of the model make
LenDiffs == {-33, -25, -1, 0, 1, 25, 58}

\* 32-bit size fields: 100, 70000, and three within 256 of 2^32
SizeFields ==
    { <<0, 0, 0, 100>>, <<0, 1, 17, 112>>, <<255, 255, 255, 0>>,
      <<255, 255, 255, 240>>, <<255, 255, 255, 255>> }

\* the head of an existing meta, udta or moov, 8 bytes or extended (the
\* extended sizes of the model are below 2^31)
HeadBuffers ==
    { sz \o fcc : sz \in SizeFields, fcc \in {MOVIE, USER_DATA, METADATA} }
        \cup { <<0, 0, 0, 1>> \o fcc \o <<0, 0, 0, 0>> \o sz :
                 sz \in { <<0, 0, 0, 100>>, <<0, 1, 17, 112>> },
                 fcc \in {MOVIE, USER_DATA, METADATA} }

\* the entries of the tables, as Wrapped32At reads them: -1 is 4294967295
StcoOffs == { <<300, 400>>, <<5, 300>>, <<-1, 300>>, <<-16, -300>> }
Co64Offs == { <<300>>, <<5>> }

\* a stbl box with a stco and a co64 table
TableBuffers ==
    { Box(SAMPLE_TABLE, StcoBytes(so) \o Co64Bytes(co)) : so \in StcoOffs, co \in Co64Offs }

IsHeadBuffer(f) == Bytes(f, 4, 4) \in {MOVIE, USER_DATA, METADATA}
IsExtHead(f) == Bytes(f, 0, 4) = <<0, 0, 0, 1>>

\* the AtomBounds of the box whose head the buffer holds; len is kept as its
\* representative modulo 2^32, which is all `as u32` keeps of it
HeadBounds(f) ==
    [err |-> "ok", pos |-> 0,
     len |-> IF IsExtHead(f) THEN Wrapped64At(f, 8) ELSE Wrapped32At(f, 0),
     hl |-> IF IsExtHead(f) THEN 16 ELSE 8,
     fourcc |-> Bytes(f, 4, 4)]

InitArith ==
    /\ file \in HeadBuffers \cup TableBuffers
    /\ orig = file
    /\ first = <<>>
    /\ items = <<>>
    /\ src = "none"
    /\ tag = NoTag
    /\ pc = "idle"
    /\ \E d \in LenDiffs : plan = [NoPlan EXCEPT !.len_diff = d]
    /\ res = NoRes
    /\ calls = 0

\* atom/mod.rs lines 349-359 for one existing ancestor: the only errors are
\* those of the writer
ArithUpdateLen ==
    /\ pc = "idle"
    /\ IsHeadBuffer(file)
    /\ file' = UpdateLen(file, HeadBounds(file), plan.len_diff)
    /\ res' = [op |-> "update_len", err |-> "ok"]
    /\ pc' = "done"
    /\ UNCHANGED <<orig, first, items, src, tag, plan, calls>>

\* atom.rs lines 485-488 for one atom of the path
ArithAdjustLengths ==
    /\ pc = "idle"
    /\ IsHeadBuffer(file) /\ ~IsExtHead(file)
    /\ file' = adjust_lengths(file, <<[pos |-> 0, len |-> Wrapped32At(file, 0)]>>,
                              plan.len_diff)
    /\ res' = [op |-> "adjust_lengths", err |-> "ok"]
    /\ pc' = "done"
    /\ UNCHANGED <<orig, first, items, src, tag, plan, calls>>

\* atom/mod.rs lines 322-345 for one stbl
ArithShift ==
    /\ pc = "idle"
    /\ ~IsHeadBuffer(file)
    /\ LET r == AdjustAll(file, <<Stbl_find(file, parse_head(file, 0))>>, plan.len_diff)
       IN  /\ file' = r.file
           /\ res' = [op |-> "shift", err |-> r.err]
    /\ pc' = "done"
    /\ UNCHANGED <<orig, first, items, src, tag, plan, calls>>

NextArith ==
    \/ ArithUpdateLen
    \/ ArithAdjustLengths
    \/ ArithShift

SpecArith == InitArith /\ [][NextArith]_vars

-----------------------------------------------------------------------------
(* The tag facade: the generated flag accessors (mp4ameta_proc) over the    *)
(* item list of a tag, and dump_tag_to of atom/mod.rs.                      *)

\* Data carries its type code: 0 Reserved, 1 Utf8, 13 Jpeg, 21 BeSigned.

\* Tag::data(ident): the data values of the atoms named ident, in list order
RECURSIVE Tag_data(_, _)
Tag_data(atoms, ident) ==
    IF atoms = <<>> THEN <<>>
    ELSE (IF Head(atoms).ident = ident THEN Head(atoms).data ELSE <<>>)
             \o Tag_data(Tail(atoms), ident)

\* Tag::remove_data(ident): the atoms named ident are dropped
Tag_remove_data(atoms, ident) ==
    LET Other(a) == a.ident # ident IN SelectSeq(atoms, Other)

\* Tag::set_data(ident, data): the atom named ident holds this value alone
Tag_set_data(atoms, ident, data) ==
    Append(Tag_remove_data(atoms, ident), [ident |-> ident, data |-> <<data>>])

\* a defect of flag_value: any first byte other than 0 counts as set
flag_value_nonzero(atoms, ident) ==
    LET d == FirstOf(Tag_data(atoms, ident))
    IN  IF d = <<>> THEN FALSE
        ELSE IF d[1].code \in {0, 21}
        THEN (IF d[1].payload = <<>> THEN FALSE ELSE d[1].payload[1] # 0)
        ELSE FALSE

\* the generated getter:
\*   let vec = match self.data(ident).next() {
\*       Some(Data::Reserved(v)) => v, Some(Data::BeSigned(v)) => v,
\*       _ => return false };
\*   vec.get(0).map(|&v| v == 1).unwrap_or(false)
flag_value(atoms, ident) ==
    LET d == FirstOf(Tag_data(atoms, ident))
    IN  IF d = <<>> THEN FALSE
        ELSE IF d[1].code \in {0, 21}
        THEN (IF d[1].payload = <<>> THEN FALSE ELSE d[1].payload[1] = 1)
        ELSE FALSE

\* the generated setter: self.set_data(ident, Data::BeSigned(vec![1u8]))
set_flag(atoms, ident) == Tag_set_data(atoms, ident, BeSigned(<<1>>))

\* the generated remover: self.remove_data(ident)
remove_flag(atoms, ident) == Tag_remove_data(atoms, ident)

\* Ftyp(String)::write: the head and the string
Ftyp_write(brand) == write_head(8 + Len(brand), FILE_TYPE) \o brand

\* Moov { udta, ..Default::default() }: no mvhd, no trak
Moov_len(m) == 8 + (IF m.udta = <<>> THEN 0 ELSE Udta_len(m.udta[1]))

Moov_write(m) ==
    write_head(Moov_len(m), MOVIE)
        \o (IF m.udta = <<>> THEN <<>> ELSE Udta_write(m.udta[1]))

\* "M4A \u{0}\u{0}\u{2}\u{0}isomiso2"
DumpBrand ==
    <<77, 52, 65, 32, 0, 0, 2, 0, 105, 115, 111, 109, 105, 115, 111, 50>>

\* a defect of dump_tag_to: meta is written without its hdlr
dump_tag_to_no_hdlr(atoms) ==
    Ftyp_write(DumpBrand)
        \o Moov_write([udta |-> << [meta |-> << [hdlr |-> <<>>, ilst |-> <<atoms>>] >>] >>])

\* dump_tag_to(writer, atoms): what the writer receives
dump_tag_to(atoms) ==
    Ftyp_write(DumpBrand)
        \o Moov_write([udta |-> << [meta |-> << [hdlr |-> <<Meta_hdlr>>,
                                                  ilst |-> <<atoms>>] >>] >>])

\* the values a flag atom is found with: none, one of any kind, or two
FlagData ==
    { <<>> }
        \cup { <<[code |-> c, payload |-> pl]>> :
                 c \in {0, 1, 13, 21},
                 pl \in { <<>>, <<0>>, <<1>>, <<2>>, <<1, 0>>, <<0, 1>> } }
        \cup { <<BeSigned(<<0>>), BeSigned(<<1>>)>>, <<BeSigned(<<1>>), BeSigned(<<0>>)>>,
               <<Utf8(<<1>>), BeSigned(<<1>>)>> }

\* the item lists of a tag: without the flag atom, with it alone, with it
\* before and behind a title, and with two flag atoms
TagLists ==
    { <<>>, ItemLists[2] }
        \cup { <<[ident |-> COMPILATION, data |-> d]>> : d \in FlagData }
        \cup { ItemLists[2] \o <<[ident |-> COMPILATION, data |-> d]>> : d \in FlagData }
        \cup { <<[ident |-> COMPILATION, data |-> d]>> \o ItemLists[2] : d \in FlagData }
        \cup { <<[ident |-> COMPILATION, data |-> <<>>],
                 [ident |-> COMPILATION, data |-> <<BeSigned(<<1>>)>>]>>,
               <<[ident |-> COMPILATION, data |-> <<BeSigned(<<0>>)>>],
                 [ident |-> COMPILATION, data |-> <<BeSigned(<<1>>)>>]>> }

InitTag ==
    /\ items \in TagLists
    /\ first = items
    /\ file = <<>>
    /\ orig = <<>>
    /\ src = "none"
    /\ tag = NoTag
    /\ pc = "idle"
    /\ plan = NoPlan
    /\ res = NoRes
    /\ calls = 0

\* tag.compilation()
FlagGet ==
    /\ res' = [op |-> "get", err |-> "ok", val |-> flag_value(items, COMPILATION)]
    /\ pc' = "done"
    /\ first' = items
    /\ UNCHANGED <<file, orig, items, src, tag, plan, calls>>

\* tag.set_compilation()
FlagSet ==
    /\ items' = set_flag(items, COMPILATION)
    /\ first' = items
    /\ res' = [op |-> "set", err |-> "ok", val |-> TRUE]
    /\ pc' = "done"
    /\ UNCHANGED <<file, orig, src, tag, plan, calls>>

\* tag.remove_compilation()
FlagRemove ==
    /\ items' = remove_flag(items, COMPILATION)
    /\ first' = items
    /\ res' = [op |-> "remove", err |-> "ok", val |-> FALSE]
    /\ pc' = "done"
    /\ UNCHANGED <<file, orig, src, tag, plan, calls>>

\* dump_tag_to(writer, items) into an empty writer
DumpTag ==
    /\ file' = dump_tag_to(items)
    /\ first' = items
    /\ res' = [op |-> "dump", err |-> "ok", val |-> FALSE]
    /\ pc' = "done"
    /\ UNCHANGED <<orig, items, src, tag, plan, calls>>

NextTag ==
    \/ FlagGet
    \/ FlagSet
    \/ FlagRemove
    \/ DumpTag

SpecTag == InitTag /\ [][NextTag]_vars

-----------------------------------------------------------------------------
(* The typed boxes of atom/: Trak, Co64 and Hdlr, their parsers and their   *)
(* writers.  A result is [err, arg, desc, val, pos, seen]: the kind of the  *)
(* error, its argument, its description, the value, where the reader is     *)
(* left, and the children the loop has met.                                 *)

\* Display of the fourccs the model parses
FourccName(fourcc) ==
    CASE fourcc = TRACK -> "trak"
      [] fourcc = TRACK_HEADER -> "tkhd"
      [] fourcc = TRACK_REFERENCE -> "tref"
      [] fourcc = MEDIA -> "mdia"
      [] fourcc = SAMPLE_TABLE_CHUNK_OFFSET_64 -> "co64"
      [] fourcc = HANDLER_REFERENCE -> "hdlr"
      [] OTHER -> "????"

BoxOk(val, pos, seen) ==
    [err |-> "ok", arg |-> 0, desc |-> "", val |-> val, pos |-> pos, seen |-> seen]
BoxErr(kind, arg, desc, pos, seen) ==
    [err |-> kind, arg |-> arg, desc |-> desc, val |-> <<>>, pos |-> pos, seen |-> seen]

\* a defect of ParseAtom_parse: the description is passed on as it is
ParseAtom_parse_plain(fourcc, r) == r

\* ParseAtom::parse and FindAtom::find: an error of parse_atom keeps its kind
\* and has "Error parsing <fourcc>: " put before its description
ParseAtom_parse(fourcc, r) ==
    IF r.err # "ok"
    THEN [r EXCEPT !.desc = "Error parsing " \o FourccName(fourcc) \o ": " \o r.desc]
    ELSE r

\* parse_atom of a child of trak (Tkhd, Tref, Mdia): the content is read to
\* its end and is the value; a content that runs past the end of the stream
\* is an Io error
Child_parse_atom(f, h) ==
    IF End(h) > Len(f) THEN BoxErr("Io", 0, "failed to fill whole buffer", Len(f), <<>>)
    ELSE BoxOk(Bytes(f, ContentPos(h), ContentLen(h)), End(h), <<>>)

\* write and len of such a child
Child_len(v) == 8 + Len(v)
Child_write(fourcc, v) == write_head(Child_len(v), fourcc) \o v

\* the match of Trak::parse_atom, lines 26-37: which field the child fills
TrakField(fourcc, cfg) ==
    IF fourcc = TRACK_HEADER /\ cfg.read_chapters THEN "tkhd"
    ELSE IF fourcc = TRACK_REFERENCE /\ cfg.read_chapters THEN "tref"
    ELSE IF fourcc = MEDIA /\ (cfg.read_chapters \/ cfg.read_audio_info) THEN "mdia"
    ELSE "skip"

\* a defect of TrakSet: the first child of a kind is kept
TrakSet_first(trak, field, v) ==
    [tkhd |-> IF field = "tkhd" /\ trak.tkhd = <<>> THEN <<v>> ELSE trak.tkhd,
     tref |-> IF field = "tref" /\ trak.tref = <<>> THEN <<v>> ELSE trak.tref,
     mdia |-> IF field = "mdia" /\ trak.mdia = <<>> THEN <<v>> ELSE trak.mdia]

\* trak.<field> = Some(v)
TrakSet(trak, field, v) ==
    [tkhd |-> IF field = "tkhd" THEN <<v>> ELSE trak.tkhd,
     tref |-> IF field = "tref" THEN <<v>> ELSE trak.tref,
     mdia |-> IF field = "mdia" THEN <<v>> ELSE trak.mdia]

\* Trak::parse_atom, lines 23-42:
\*   while parsed_bytes < size.content_len() { head = parse_head(reader)?;
\*       match ...; parsed_bytes += head.len() }  Ok(trak)
RECURSIVE Trak_loop(_, _, _, _, _, _, _)
Trak_loop(f, cfg, pos, parsed_bytes, content_len, trak, seen) ==
    IF parsed_bytes >= content_len THEN BoxOk(trak, pos, seen)
    ELSE Let(parse_head(f, pos), LAMBDA head :
         IF head.err # "ok" THEN BoxErr(head.err, 0, "Error reading atom head", pos, seen)
         ELSE Let(TrakField(head.fourcc, cfg), LAMBDA field :
              IF field = "skip"
              THEN Trak_loop(f, cfg, End(head), parsed_bytes + head.len, content_len, trak,
                             Append(seen, [fourcc |-> head.fourcc, len |-> head.len, act |-> "skipped"]))
              ELSE Let(ParseAtom_parse(head.fourcc, Child_parse_atom(f, head)), LAMBDA c :
                   IF c.err # "ok"
                   THEN [c EXCEPT !.seen =
                            Append(seen, [fourcc |-> head.fourcc, len |-> head.len, act |-> "failed"])]
                   ELSE Trak_loop(f, cfg, c.pos, parsed_bytes + head.len, content_len,
                                  TrakSet(trak, field, c.val),
                                  Append(seen, [fourcc |-> head.fourcc, len |-> head.len, act |-> "parsed"])))))

\* Trak::default()
NoTrak == [tkhd |-> <<>>, tref |-> <<>>, mdia |-> <<>>]

\* Trak::parse_atom(reader, cfg, size) with the reader behind the head h
Trak_parse_atom(f, cfg, h) == Trak_loop(f, cfg, ContentPos(h), 0, ContentLen(h), NoTrak, <<>>)

\* Trak::parse
Trak_parse(f, cfg, h) == ParseAtom_parse(TRACK, Trak_parse_atom(f, cfg, h))

\* Trak::size(), lines 61-65, as a box length
Trak_len(t) ==
    8 + (IF t.tkhd = <<>> THEN 0 ELSE Child_len(t.tkhd[1]))
      + (IF t.tref = <<>> THEN 0 ELSE Child_len(t.tref[1]))
      + (IF t.mdia = <<>> THEN 0 ELSE Child_len(t.mdia[1]))

\* a defect of Trak_write: the children are written mdia first
Trak_write_mdia_first(t) ==
    write_head(Trak_len(t), TRACK)
        \o (IF t.mdia = <<>> THEN <<>> ELSE Child_write(MEDIA, t.mdia[1]))
        \o (IF t.tkhd = <<>> THEN <<>> ELSE Child_write(TRACK_HEADER, t.tkhd[1]))
        \o (IF t.tref = <<>> THEN <<>> ELSE Child_write(TRACK_REFERENCE, t.tref[1]))

\* Trak::write_atom, lines 47-59
Trak_write(t) ==
    write_head(Trak_len(t), TRACK)
        \o (IF t.tkhd = <<>> THEN <<>> ELSE Child_write(TRACK_HEADER, t.tkhd[1]))
        \o (IF t.tref = <<>> THEN <<>> ELSE Child_write(TRACK_REFERENCE, t.tref[1]))
        \o (IF t.mdia = <<>> THEN <<>> ELSE Child_write(MEDIA, t.mdia[1]))

\* a defect of Co64_parse_atom: the entry count is not held against the
\* content length
Co64_parse_atom_unchecked(f, h) ==
    LET cp == ContentPos(h)
    IN  IF cp + 4 > Len(f) THEN BoxErr("Io", 0, "failed to fill whole buffer", Len(f), <<>>)
        ELSE IF f[cp + 1] # 0
        THEN BoxErr("UnknownVersion", f[cp + 1],
                    "Unknown 64bit sample table chunk offset (co64) version", cp + 4, <<>>)
        ELSE IF cp + 8 > Len(f) THEN BoxErr("Io", 0, "failed to fill whole buffer", Len(f), <<>>)
        ELSE Let(ReadU32(f, cp + 4), LAMBDA entries :
             IF entries > 1000 \/ cp + 8 + 8 * entries > Len(f)
             THEN BoxErr("Io", 0, "failed to fill whole buffer", Len(f), <<>>)
             ELSE BoxOk([state |-> [kind |-> "Existing", bounds |-> h],
                         offsets |-> [i \in 1..entries |->
                                         Wrapped64At(f, cp + 8 + 8 * (i - 1))]],
                        cp + 8 + 8 * entries, <<>>))

\* Co64::parse_atom, lines 20-44, with the reader behind the head h: the
\* bounds, version and flags, the version check, the entry count and its
\* check, the offsets; a read past the end of the stream is an Io error.
\* (A count too large to multiply is above every content length the model
\* has.)
Co64_parse_atom(f, h) ==
    LET cp == ContentPos(h)
    IN  IF cp + 4 > Len(f) THEN BoxErr("Io", 0, "failed to fill whole buffer", Len(f), <<>>)
        ELSE IF f[cp + 1] # 0
        THEN BoxErr("UnknownVersion", f[cp + 1],
                    "Unknown 64bit sample table chunk offset (co64) version", cp + 4, <<>>)
        ELSE IF cp + 8 > Len(f) THEN BoxErr("Io", 0, "failed to fill whole buffer", Len(f), <<>>)
        ELSE Let(ReadU32(f, cp + 4), LAMBDA entries :
             IF entries > 1000 \/ 8 + 8 * entries # ContentLen(h)
             THEN BoxErr("Parsing", 0,
                         "Sample table chunk offset 64 (co64) offset table size doesn't match atom length",
                         cp + 8, <<>>)
             ELSE IF cp + 8 + 8 * entries > Len(f)
             THEN BoxErr("Io", 0, "failed to fill whole buffer", Len(f), <<>>)
             ELSE BoxOk([state |-> [kind |-> "Existing", bounds |-> h],
                         offsets |-> [i \in 1..entries |->
                                         Wrapped64At(f, cp + 8 + 8 * (i - 1))]],
                        cp + 8 + 8 * entries, <<>>))

\* a defect of Co64_len: version, flags and the count are left out
Co64_len_entries_only(v) == 8 + 8 * Len(v.offsets)

\* Co64::size(), lines 61-64, as a box length
Co64_len(v) == 8 + 8 + 8 * Len(v.offsets)

\* Co64::write_atom, lines 49-58: head, version 0 and flags, count, offsets
Co64_write(v) ==
    write_head(Co64_len(v), SAMPLE_TABLE_CHUNK_OFFSET_64)
        \o <<0, 0, 0, 0>> \o BE32(Len(v.offsets))
        \o Concat([i \in 1..Len(v.offsets) |-> BE64(v.offsets[i])])

\* Hdlr::parse_atom: read_u8_vec(size.content_len())
Hdlr_parse_atom(f, h) ==
    IF End(h) > Len(f) THEN BoxErr("Io", 0, "failed to fill whole buffer", Len(f), <<>>)
    ELSE BoxOk(Bytes(f, ContentPos(h), ContentLen(h)), End(h), <<>>)

\* the longest list of children a trak of the model has
MaxKids == 3

\* the children of a trak: two track headers that differ, a reference, a
\* media box and a box the parser does not know
KidNames == {"tkhd", "tkhd2", "tref", "mdia", "free"}

KidBytes(name) ==
    CASE name = "tkhd"  -> Box(TRACK_HEADER, <<1, 2>>)
      [] name = "tkhd2" -> Box(TRACK_HEADER, <<7>>)
      [] name = "tref"  -> Box(TRACK_REFERENCE, <<3>>)
      [] name = "mdia"  -> Box(MEDIA, <<4, 5, 6>>)
      [] name = "free"  -> Box(FREE, <<9>>)

KidLists == UNION { [1..n -> KidNames] : n \in 0..MaxKids }

KidsBytes(names) == Concat([i \in 1..Len(names) |-> KidBytes(names[i])])

\* the box that follows the one that is parsed
Sibling == Box(FREE, <<7, 7>>)

\* trak boxes: whole ones, with a sibling behind them; ones that declare 1
\* or 3 bytes less than their children take; ones whose last child is cut by
\* the end of the stream, declares 4 bytes, or declares 0 (to the end)
TrakBuffers ==
    { Box(TRACK, KidsBytes(names)) \o Sibling : names \in KidLists }
        \cup { write_head(8 + Len(KidsBytes(names)) - k, TRACK) \o KidsBytes(names) \o Sibling :
                 names \in { l \in KidLists : Len(l) \in 1..2 }, k \in {1, 3} }
        \cup { SubSeq(Box(TRACK, KidsBytes(names)), 1, 8 + Len(KidsBytes(names)) - 2) :
                 names \in { l \in KidLists : Len(l) \in 1..2 } }
        \cup { Box(TRACK, KidsBytes(names) \o <<0, 0, 0, 4>> \o FREE) \o Sibling :
                 names \in { l \in KidLists : Len(l) <= 1 } }
        \cup { Box(TRACK, KidsBytes(names) \o <<0, 0, 0, 0>> \o MEDIA \o <<4, 5>>) :
                 names \in { l \in KidLists : Len(l) <= 1 } }

\* co64 boxes, alone or behind an empty free box: whole ones, a version 1, a
\* count above and below the entries that follow, a stream cut in the count
\* and one cut in the last entry
Co64Buffers ==
    LET whole == { Co64Bytes(offs) : offs \in { <<>>, <<5>>, <<300, 7>>, <<-1, 0, 70000>> } }
        body(v, n, offs) == <<v, 0, 0, 0>> \o BE32(n)
                                \o Concat([i \in 1..Len(offs) |-> BE64(offs[i])])
        other == { Box(SAMPLE_TABLE_CHUNK_OFFSET_64, body(1, 1, <<5>>)),
                   Box(SAMPLE_TABLE_CHUNK_OFFSET_64, body(2, 0, <<>>)),
                   Box(SAMPLE_TABLE_CHUNK_OFFSET_64, body(0, 2, <<5>>)),
                   Box(SAMPLE_TABLE_CHUNK_OFFSET_64, body(0, 0, <<5>>)),
                   Box(SAMPLE_TABLE_CHUNK_OFFSET_64, body(0, 1, <<5, 6>>)),
                   Box(SAMPLE_TABLE_CHUNK_OFFSET_64, <<0, 0, 0, 0, 255, 255, 255, 255>>),
                   SubSeq(Co64Bytes(<<5>>), 1, 14),
                   SubSeq(Co64Bytes(<<5, 6>>), 1, 30) }
    IN  { pre \o b \o post : pre \in { <<>>, Box(FREE, <<>>) }, b \in whole \cup other,
                             post \in { <<>>, Sibling } }

\* hdlr boxes, alone or behind an empty free box, and one cut by the end of
\* the stream
HdlrBuffers ==
    { pre \o Box(HANDLER_REFERENCE, pl) \o post :
        pre \in { <<>>, Box(FREE, <<>>) }, pl \in { <<>>, <<255>>, ForeignHdlr, Meta_hdlr },
        post \in { <<>>, Sibling } }
        \cup { SubSeq(Box(HANDLER_REFERENCE, ForeignHdlr), 1, 12) }

\* ReadConfig: the two flags Trak::parse_atom reads
ReadConfigs == [read_chapters : BOOLEAN, read_audio_info : BOOLEAN]

\* where the box to parse starts: behind the empty free box, if there is one
BoxStart(f) == IF Bytes(f, 4, 4) = FREE THEN 8 ELSE 0

\* the head of the box to parse
BoxHead(f) == parse_head(f, BoxStart(f))

InitBox ==
    /\ file \in TrakBuffers \cup Co64Buffers \cup HdlrBuffers
    /\ orig = file
    /\ first = <<>>
    /\ items = <<>>
    /\ src = "none"
    /\ tag = NoTag
    /\ pc = "idle"
    /\ plan \in ReadConfigs
    /\ res = NoRes
    /\ calls = 0

\* the result of an operation on a box
BoxRes(op, r) ==
    [op |-> op, box |-> BoxHead(orig).fourcc, err |-> r.err, arg |-> r.arg,
     desc |-> r.desc, val |-> r.val, pos |-> r.pos, seen |-> r.seen]

\* the parse of the box of this fourcc whose head is h
Box_parse(f, cfg, h) ==
    CASE h.fourcc = TRACK -> Trak_parse(f, cfg, h)
      [] h.fourcc = SAMPLE_TABLE_CHUNK_OFFSET_64 ->
             ParseAtom_parse(SAMPLE_TABLE_CHUNK_OFFSET_64, Co64_parse_atom(f, h))
      [] h.fourcc = HANDLER_REFERENCE ->
             ParseAtom_parse(HANDLER_REFERENCE, Hdlr_parse_atom(f, h))

\* Trak::parse(reader, cfg, head.size())
TrakParse ==
    /\ pc = "idle" /\ BoxHead(file).fourcc = TRACK
    /\ res' = BoxRes("parse", Box_parse(file, plan, BoxHead(file)))
    /\ pc' = "done"
    /\ UNCHANGED <<file, orig, first, items, src, tag, plan, calls>>

\* Trak::find(reader, head.size())
TrakFind ==
    /\ pc = "idle" /\ BoxHead(file).fourcc = TRACK
    /\ LET r == Trak_find(file, BoxHead(file))
       IN  res' = [op |-> "find", box |-> TRACK, err |-> r.err, arg |-> 0, desc |-> "",
                   val |-> r, pos |-> 0, seen |-> <<>>]
    /\ pc' = "done"
    /\ UNCHANGED <<file, orig, first, items, src, tag, plan, calls>>

\* Co64::parse(reader, cfg, head.size())
Co64Parse ==
    /\ pc = "idle" /\ BoxHead(file).fourcc = SAMPLE_TABLE_CHUNK_OFFSET_64
    /\ res' = BoxRes("parse", Box_parse(file, plan, BoxHead(file)))
    /\ pc' = "done"
    /\ UNCHANGED <<file, orig, first, items, src, tag, plan, calls>>

\* Hdlr::parse(reader, head.size())
HdlrParse ==
    /\ pc = "idle" /\ BoxHead(file).fourcc = HANDLER_REFERENCE
    /\ res' = BoxRes("parse", Box_parse(file, plan, BoxHead(file)))
    /\ pc' = "done"
    /\ UNCHANGED <<file, orig, first, items, src, tag, plan, calls>>

\* the value that was parsed is written to a writer of its own
Written(fourcc, bytes) ==
    /\ pc = "done" /\ res.op = "parse" /\ res.err = "ok" /\ res.box = fourcc
    /\ tag' = res.val
    /\ file' = bytes
    /\ res' = [res EXCEPT !.op = "write"]
    /\ pc' = "written"
    /\ UNCHANGED <<orig, first, items, src, plan, calls>>

\* Trak::write(writer)
TrakWrite == Written(TRACK, Trak_write(res.val))

\* Co64::write(writer)
Co64Write == Written(SAMPLE_TABLE_CHUNK_OFFSET_64, Co64_write(res.val))

\* Hdlr::write(writer)
HdlrWrite == Written(HANDLER_REFERENCE, Hdlr_write(res.val))

\* the written bytes are parsed, the head first, with every flag of the
\* ReadConfig set
Reparse ==
    /\ pc = "written"
    /\ res' = BoxRes("reparse",
                     Box_parse(file, [read_chapters |-> TRUE, read_audio_info |-> TRUE],
                               parse_head(file, 0)))
    /\ pc' = "reparsed"
    /\ UNCHANGED <<file, orig, first, items, src, tag, plan, calls>>

NextBox ==
    \/ TrakParse
    \/ TrakFind
    \/ Co64Parse
    \/ HdlrParse
    \/ TrakWrite
    \/ Co64Write
    \/ HdlrWrite
    \/ Reparse

SpecBox == InitBox /\ [][NextBox]_vars

-----------------------------------------------------------------------------
(* The loops that walk boxes, one iteration a step: the loop of write_tag_to *)
(* and the top-level parse_atoms of read_tag_from in atom.rs, the sweep of   *)
(* write_tag_to in atom/mod.rs and the loop of Trak::parse_atom.  plan holds *)
(* the variables of the loop, src names the loop.                            *)

\* the longest list of boxes behind ftyp, or in a trak, the loops are run on
MaxBoxes == 2

\* boxes to walk over: a whole one, one that declares 0, one that declares 4,
\* one that declares more than the stream holds, a moov with an empty udta,
\* an mdat
OddBoxes ==
    { Box(FREE, <<1>>), <<0, 0, 0, 0>> \o FREE, <<0, 0, 0, 4>> \o FREE,
      <<0, 0, 0, 200>> \o FREE \o <<1>>, Box(MOVIE, Box(USER_DATA, <<>>)),
      Box(MEDIA_DATA, <<2>>) }

OddTails == { Concat(l) : l \in UNION { [1..n -> OddBoxes] : n \in 0..MaxBoxes } }

LoopFiles ==
    { FtypBytes \o t : t \in OddTails } \cup { Box(TRACK, t) \o Sibling : t \in OddTails }

InitLoop ==
    /\ file \in LoopFiles
    /\ orig = file
    /\ first = <<>>
    /\ items = <<>>
    /\ src = "none"
    /\ tag = NoTag
    /\ pc = "idle"
    /\ plan = NoPlan
    /\ res = NoRes
    /\ calls = 0

\* the call returns
LoopDone(e) ==
    /\ pc' = "done"
    /\ res' = [op |-> "loop", err |-> e]

\* write_tag_to of atom.rs, lines 449-452: the ftyp atom is parsed and checked
AtomWriteBegin ==
    /\ pc = "idle" /\ Bytes(file, 4, 4) = FILE_TYPE
    /\ src' = "atom_write"
    /\ LET ftyp == parse_filetype(file)
       IN  IF ftyp.err # "ok"
           THEN LoopDone(ftyp.err) /\ UNCHANGED plan
           ELSE /\ pc' = "w_head"
                /\ plan' = [pos |-> ftyp.pos, destination |-> item_list_atom_t,
                            atom_pos_and_len |-> <<>>, length |-> 0, ident |-> <<>>]
                /\ UNCHANGED res
    /\ UNCHANGED <<file, orig, first, items, tag, calls>>

\* lines 470-500, with no atoms to write, once the loop is left
AtomWriteRest(atom_pos_and_len) ==
    LET r == replace_metadata(file, <<>>, atom_pos_and_len)
    IN  LoopDone(r.err) /\ file' = r.file

\* line 454: while let Ok((length, ident)) = parse_head(&mut reader)
AtomWriteHead ==
    /\ pc = "w_head"
    /\ LET h == atom_rs_parse_head(file, plan.pos)
       IN  IF h.err # "ok"
           THEN AtomWriteRest(plan.atom_pos_and_len) /\ UNCHANGED plan
           ELSE /\ plan' = [plan EXCEPT !.pos = h.pos, !.length = h.val.len,
                                        !.ident = h.val.ident]
                /\ pc' = "w_body"
                /\ UNCHANGED <<file, res>>
    /\ UNCHANGED <<orig, first, items, src, tag, calls>>

\* lines 455-467: the body of the loop
AtomWriteBody ==
    /\ pc = "w_body"
    /\ IF plan.ident = plan.destination.ident
       THEN LET path == Append(plan.atom_pos_and_len,
                               [pos |-> plan.pos - 8, len |-> plan.length])
            IN  IF Atom_first_child(plan.destination) = <<>>
                THEN /\ AtomWriteRest(path)
                     /\ plan' = [plan EXCEPT !.atom_pos_and_len = path]
                ELSE /\ plan' = [plan EXCEPT !.atom_pos_and_len = path,
                                     !.pos = plan.pos + plan.destination.offset,
                                     !.destination = Atom_first_child(plan.destination)[1]]
                     /\ pc' = "w_head"
                     /\ UNCHANGED <<file, res>>
       ELSE /\ plan' = [plan EXCEPT !.pos = plan.pos + (plan.length - 8)]
            /\ pc' = "w_head"
            /\ UNCHANGED <<file, res>>
    /\ UNCHANGED <<orig, first, items, src, tag, calls>>

\* read_tag_from of atom.rs: the ftyp atom, then parse_atoms over the rest
AtomReadBegin ==
    /\ pc = "idle" /\ Bytes(file, 4, 4) = FILE_TYPE
    /\ src' = "atom_read"
    /\ LET ftyp == parse_filetype(file)
       IN  IF ftyp.err # "ok"
           THEN LoopDone(ftyp.err) /\ UNCHANGED plan
           ELSE /\ pc' = "r_loop"
                /\ plan' = [pos |-> ftyp.pos, parsed_bytes |-> 0,
                            length |-> Len(file) - ftyp.pos]
                /\ UNCHANGED res
    /\ UNCHANGED <<file, orig, first, items, tag, calls>>

\* AtomT::parse_atoms, lines 344-379: one turn of the loop, or its exit
AtomReadStep ==
    /\ pc = "r_loop"
    /\ IF plan.parsed_bytes >= plan.length THEN LoopDone("ok") /\ UNCHANGED plan
       ELSE LET h == atom_rs_parse_head(file, plan.pos)
                c == parse_content(metadata_atom, file, h.pos, h.val.len)
            IN  IF h.err # "ok" THEN LoopDone(h.err) /\ UNCHANGED plan
                ELSE IF h.val.ident = MOVIE /\ c.err # "ok"
                THEN LoopDone(c.err) /\ UNCHANGED plan
                ELSE /\ plan' = [plan EXCEPT
                            !.pos = IF h.val.ident = MOVIE THEN c.pos
                                    ELSE IF h.val.len > 8 THEN h.pos + (h.val.len - 8)
                                    ELSE h.pos,
                            !.parsed_bytes = plan.parsed_bytes + h.val.len]
                     /\ UNCHANGED <<pc, res>>
    /\ UNCHANGED <<file, orig, first, items, src, tag, calls>>

\* write_tag_to of atom/mod.rs, lines 218-223
SweepBegin ==
    /\ pc = "idle" /\ Bytes(file, 4, 4) = FILE_TYPE
    /\ src' = "sweep"
    /\ LET ftyp == Ftyp_parse(file)
       IN  IF ftyp.err # "ok"
           THEN LoopDone(ftyp.err) /\ UNCHANGED plan
           ELSE /\ pc' = "s_loop"
                /\ plan' = [pos |-> ftyp.end, parsed_bytes |-> 0,
                            length |-> Len(file) - ftyp.end]
                /\ UNCHANGED res
    /\ UNCHANGED <<file, orig, first, items, tag, calls>>

\* lines 225-237: one turn of the loop, or its exit
SweepStep ==
    /\ pc = "s_loop"
    /\ IF plan.parsed_bytes >= plan.length THEN LoopDone("ok") /\ UNCHANGED plan
       ELSE LET head == parse_head(file, plan.pos)
            IN  IF head.err # "ok" THEN LoopDone(head.err) /\ UNCHANGED plan
                ELSE IF head.fourcc = MOVIE /\ Moov_find(file, head).err # "ok"
                THEN LoopDone(Moov_find(file, head).err) /\ UNCHANGED plan
                ELSE /\ plan' = [plan EXCEPT !.pos = End(head),
                                     !.parsed_bytes = plan.parsed_bytes + head.len]
                     /\ UNCHANGED <<pc, res>>
    /\ UNCHANGED <<file, orig, first, items, src, tag, calls>>

\* Trak::parse_atom, lines 20-21, with every flag of the ReadConfig set
TrakBegin ==
    /\ pc = "idle" /\ Bytes(file, 4, 4) = TRACK
    /\ src' = "trak"
    /\ pc' = "t_loop"
    /\ plan' = [pos |-> 8, parsed_bytes |-> 0, length |-> ContentLen(parse_head(file, 0))]
    /\ UNCHANGED <<file, orig, first, items, tag, res, calls>>

\* lines 23-42: one turn of the loop, or its exit
TrakStep ==
    /\ pc = "t_loop"
    /\ IF plan.parsed_bytes >= plan.length THEN LoopDone("ok") /\ UNCHANGED plan
       ELSE LET head == parse_head(file, plan.pos)
                c    == Child_parse_atom(file, head)
            IN  IF head.err # "ok" THEN LoopDone(head.err) /\ UNCHANGED plan
                ELSE IF head.fourcc \in {TRACK_HEADER, TRACK_REFERENCE, MEDIA}
                        /\ c.err # "ok"
                THEN LoopDone(c.err) /\ UNCHANGED plan
                ELSE /\ plan' = [plan EXCEPT !.pos = End(head),
                                     !.parsed_bytes = plan.parsed_bytes + head.len]
                     /\ UNCHANGED <<pc, res>>
    /\ UNCHANGED <<file, orig, first, items, src, tag, calls>>

NextLoop ==
    \/ AtomWriteBegin
    \/ AtomWriteHead
    \/ AtomWriteBody
    \/ AtomReadBegin
    \/ AtomReadStep
    \/ SweepBegin
    \/ SweepStep
    \/ TrakBegin
    \/ TrakStep

\* a call that has begun runs on: there is one thread, and nothing to wait for
SpecLoop == InitLoop /\ [][NextLoop]_vars /\ WF_vars(NextLoop)

-----------------------------------------------------------------------------
(* Observers: what can be read off the bytes of a file, without the finder. *)

\* the offsets at which a box head with this fourcc starts, in file order
Heads(f, fourcc) ==
    LET Is(p) == SubSeq(f, p + 5, p + 8) = fourcc
    IN  SelectSeq([i \in 1..(Len(f) - 7) |-> i - 1], Is)

\* the fourccs of the top-level boxes, walking the size fields
RECURSIVE TopFourccs(_, _)
TopFourccs(f, p) ==
    IF p + 8 > Len(f) \/ U32At(f, p) < 8 THEN <<>>
    ELSE <<Bytes(f, p + 4, 4)>> \o TopFourccs(f, p + U32At(f, p))

\* the top-level boxes, walking the size fields: where each starts, how long
\* it is and its fourcc
RECURSIVE TopBoxes(_, _)
TopBoxes(f, p) ==
    IF p + 8 > Len(f) \/ ReadU32(f, p) < 8 THEN <<>>
    ELSE <<[pos |-> p, len |-> ReadU32(f, p), fourcc |-> Bytes(f, p + 4, 4)]>>
             \o TopBoxes(f, p + ReadU32(f, p))

\* the entries of the chunk offset table whose head starts at p
StcoEntries(f, p) == [i \in 1..U32At(f, p + 12) |-> Wrapped32At(f, p + 16 + 4 * (i - 1))]
Co64Entries(f, p) == [i \in 1..U32At(f, p + 12) |-> Wrapped64At(f, p + 16 + 8 * (i - 1))]

\* every entry of every stco table, then of every co64 table, in file order
AllEntries(f) ==
    Concat([k \in 1..Len(Heads(f, SAMPLE_TABLE_CHUNK_OFFSET)) |->
               StcoEntries(f, Heads(f, SAMPLE_TABLE_CHUNK_OFFSET)[k])])
    \o Concat([k \in 1..Len(Heads(f, SAMPLE_TABLE_CHUNK_OFFSET_64)) |->
               Co64Entries(f, Heads(f, SAMPLE_TABLE_CHUNK_OFFSET_64)[k])])

\* the offset lies inside the content of an mdat box of f
InMdat(f, off) ==
    \E k \in 1..Len(Heads(f, MEDIA_DATA)) :
        LET p == Heads(f, MEDIA_DATA)[k] IN off >= p + 8 /\ off < p + U32At(f, p)

\* a write_tag_to call has just returned Ok(())
WriteDone == pc = "done" /\ res.op = "write" /\ res.err = "ok"

\* meta of the file holds both a hdlr and an ilst
HasHdlrAndIlst(f) == Heads(f, HANDLER_REFERENCE) # <<>> /\ Heads(f, ITEM_LIST) # <<>>

\* the file starts with a whole ftyp box that has content
HasFtypContent(f) ==
    /\ Len(f) >= 8
    /\ Bytes(f, 4, 4) = FILE_TYPE
    /\ U32At(f, 0) > 8
    /\ U32At(f, 0) <= Len(f)

FtypContent(f) == Bytes(f, 8, U32At(f, 0) - 8)

\* the brand starts with one of the five supported file types
SupportedBrand(b) ==
    \E i \in 1..Len(VALID_FILE_TYPES) :
        Len(b) >= 4 /\ SubSeq(b, 1, 4) = VALID_FILE_TYPES[i]

-----------------------------------------------------------------------------
(* The properties.                                                          *)

C2_ChunkOffsetPreservation ==
    (WriteDone /\ \A i \in 1..Len(AllEntries(orig)) : InMdat(orig, AllEntries(orig)[i])) =>
        /\ Len(AllEntries(file)) = Len(AllEntries(orig))
        /\ \A i \in 1..Len(AllEntries(orig)) :
              /\ InMdat(file, AllEntries(file)[i])
              /\ file[AllEntries(file)[i] + 1] = orig[AllEntries(orig)[i] + 1]

\* C3 (as stated): on a file laid out ftyp | moov | mdat, after a successful
\* write_tag_to every stco and co64 entry stored in the file is its old value
\* plus len_diff, and the mdat box is found, unchanged, len_diff further.
C3_EntriesShiftByLenDiff ==
    (WriteDone /\ TopFourccs(orig, 0) = <<FILE_TYPE, MOVIE, MEDIA_DATA>>) =>
        /\ AllEntries(file) =
              [i \in 1..Len(AllEntries(orig)) |-> AllEntries(orig)[i] + plan.len_diff]
        /\ Heads(file, MEDIA_DATA) = <<Heads(orig, MEDIA_DATA)[1] + plan.len_diff>>
        /\ Bytes(file, Heads(file, MEDIA_DATA)[1], U32At(file, Heads(file, MEDIA_DATA)[1]))
              = Bytes(orig, Heads(orig, MEDIA_DATA)[1], U32At(orig, Heads(orig, MEDIA_DATA)[1]))

\* C4: on a file laid out ftyp | mdat | moov{udta{meta{hdlr,ilst}}} a
\* successful write_tag_to changes no stco/co64 entry, leaves the mdat box
\* where and as it was, and changes the file length by the length of the new
\* ilst minus the length of the old one.
C4_MdatFirstFrame ==
    (WriteDone /\ TopFourccs(orig, 0) = <<FILE_TYPE, MEDIA_DATA, MOVIE>>
               /\ HasHdlrAndIlst(orig)) =>
        /\ AllEntries(file) = AllEntries(orig)
        /\ Heads(file, MEDIA_DATA) = Heads(orig, MEDIA_DATA)
        /\ Bytes(file, Heads(orig, MEDIA_DATA)[1], U32At(orig, Heads(orig, MEDIA_DATA)[1]))
              = Bytes(orig, Heads(orig, MEDIA_DATA)[1], U32At(orig, Heads(orig, MEDIA_DATA)[1]))
        /\ Len(file) - Len(orig)
              = Ilst_len(items) - U32At(orig, Heads(orig, ITEM_LIST)[1])
        /\ U32At(file, Heads(file, ITEM_LIST)[1]) = Ilst_len(items)

\* C4 (case): such a write ended with a list of another length than the old
\* one, on a file that has chunk offsets.
C4_Witness ==
    /\ WriteDone
    /\ TopFourccs(orig, 0) = <<FILE_TYPE, MEDIA_DATA, MOVIE>>
    /\ HasHdlrAndIlst(orig)
    /\ AllEntries(orig) # <<>>
    /\ Len(file) # Len(orig)

\* C5 (as stated): when moov has no udta child, after write_tag_to a new
\* udta{meta{hdlr,ilst{items}}} starts at the old end of moov, the size field
\* of moov and the file length have grown by its length, and the bytes that
\* followed moov follow the new udta unchanged.
C5_NewUdtaAtMoovEnd ==
    (WriteDone /\ Len(Heads(orig, MOVIE)) = 1 /\ Heads(orig, USER_DATA) = <<>>) =>
        LET m == Heads(orig, MOVIE)[1]
            e == m + U32At(orig, m)
            u == Udta_write([meta |-> << [hdlr |-> <<Meta_hdlr>>, ilst |-> <<items>>] >>])
        IN  /\ Bytes(file, e, Len(u)) = u
            /\ U32At(file, m) = U32At(orig, m) + Len(u)
            /\ Len(file) = Len(orig) + Len(u)
            /\ Bytes(file, e + Len(u), Len(orig) - e) = Bytes(orig, e, Len(orig) - e)

\* C6 (as stated): on a file with a valid ftyp and no moov box, read_tag_from
\* and write_tag_to end with AtomNotFound(moov), and the file is as it was.
C6_NoMoovIsAtomNotFound ==
    (pc = "done" /\ res.op \in {"read", "write"}
        /\ HasFtypContent(orig) /\ SupportedBrand(FtypContent(orig))
        /\ Heads(orig, MOVIE) = <<>>) =>
        /\ res.err = "AtomNotFound"
        /\ res.arg = MOVIE
        /\ file = orig

\* C7: a ftyp whose content starts with one of the five supported file
\* types passes the check; with any other content the read and the write
\* end with InvalidFiletype carrying the whole content, the reader stands at
\* the end of the ftyp box (no other box was examined) and the file is as it
\* was.
C7_BrandValidatedByPrefix ==
    (pc = "done" /\ res.op \in {"read", "write"} /\ HasFtypContent(orig)) =>
        IF SupportedBrand(FtypContent(orig))
        THEN res.err \notin {"InvalidFiletype", "NoTag"}
        ELSE /\ res.err = "InvalidFiletype"
             /\ res.arg = FtypContent(orig)
             /\ res.pos = U32At(orig, 0)
             /\ file = orig

\* C7 (case): a write ended with InvalidFiletype on a brand that holds a
\* supported file type, but not at its start, and boxes follow the ftyp.
C7_Witness ==
    /\ pc = "done" /\ res.op = "write"
    /\ HasFtypContent(orig)
    /\ FtypContent(orig) = <<32, 77, 52, 65, 32>>
    /\ Len(orig) > U32At(orig, 0)
    /\ res.err = "InvalidFiletype"

\* C8 (as stated): when the first box of the input is not a ftyp box,
\* read_tag_from ends with NoTag.
C8_MissingFtypIsNoTag ==
    (pc = "done" /\ res.op = "read" /\ Len(orig) >= 8 /\ Bytes(orig, 4, 4) # FILE_TYPE) =>
        res.err = "NoTag"

\* C9: reading a tag from an input of length 0 ends with the Io error that
\* parse_head raises while it reads the size, with the reader at offset 0 and
\* no tag returned.
C9_EmptyInputIsIo ==
    (pc = "done" /\ res.op = "read" /\ Len(orig) = 0) =>
        /\ tag.err = "Io"
        /\ tag.desc = "Error reading atom length"
        /\ tag.pos = 0
        /\ tag.val = <<>>

\* C9 (case): a read of the empty input has ended.
C9_Witness ==
    pc = "done" /\ res.op = "read" /\ Len(orig) = 0 /\ file = <<>> /\ tag.err = "Io"

\* C10: the file after a second (and any further) write_tag_to with the
\* same items is the file the first call left; a second call that succeeds
\* has len_diff = 0, creates no hdlr, meta or udta and changes no chunk
\* offset.
C10_Idempotence ==
    (pc = "done" /\ res.op = "write" /\ calls >= 2) =>
        /\ file = first
        /\ res.err = "ok" =>
              /\ plan.len_diff = 0
              /\ plan.new_hdlr = <<>> /\ plan.new_meta = <<>> /\ plan.new_udta = <<>>
              /\ AllEntries(file) = AllEntries(orig)

\* C10 (case): a second call with a non-empty list ended on a file whose
\* mdat lies behind moov, the layout in which offsets are shifted.
C10_Witness ==
    /\ WriteDone /\ calls = 2
    /\ items # <<>>
    /\ ShiftsOffsets(plan.mdat_pos, plan.moov[1].bounds.pos)
    /\ AllEntries(file) # <<>>
    /\ file = first

\* C11: after a successful write_tag_to every top-level box of the old file
\* other than moov is a top-level box of the new file with the same bytes:
\* where it was when it lies before moov, len_diff further when it lies
\* behind moov.
C11_TopLevelBoxesKept ==
    (WriteDone /\ Len(Heads(orig, MOVIE)) = 1) =>
        \A i \in 1..Len(TopBoxes(orig, 0)) :
            LET b == TopBoxes(orig, 0)[i]
                q == IF b.pos < Heads(orig, MOVIE)[1] THEN b.pos ELSE b.pos + plan.len_diff
            IN  b.fourcc # MOVIE =>
                    /\ Bytes(file, q, b.len) = Bytes(orig, b.pos, b.len)
                    /\ \E j \in 1..Len(TopBoxes(file, 0)) :
                           TopBoxes(file, 0)[j] = [b EXCEPT !.pos = q]

\* C11 (case): a write that changed the length ended on a file with a free
\* box before moov and a free box behind it.
C11_Witness ==
    /\ WriteDone
    /\ TopFourccs(orig, 0) = <<FILE_TYPE, FREE, MEDIA_DATA, MOVIE, FREE>>
    /\ plan.len_diff # 0
    /\ Len(TopBoxes(file, 0)) = 5

\* the content of meta starts with the head of a hdlr or of an ilst: the box
\* has no version and flags
BareMeta(f) ==
    /\ Len(Heads(f, METADATA)) = 1
    /\ Bytes(f, Heads(f, METADATA)[1] + 12, 4) \in {HANDLER_REFERENCE, ITEM_LIST}

\* the same file with version 0 and flags 0 put in front of meta's content
\* and the sizes of meta, udta and moov four bytes larger
WithPrefix(f) ==
    LET m == Heads(f, METADATA)[1]
        u == Heads(f, USER_DATA)[1]
        v == Heads(f, MOVIE)[1]
        g == SubSeq(f, 1, m + 8) \o <<0, 0, 0, 0>> \o SubSeq(f, m + 9, Len(f))
    IN  WriteAt(WriteAt(WriteAt(g, m, BE32(U32At(f, m) + 4)),
                        u, BE32(U32At(f, u) + 4)),
                v, BE32(U32At(f, v) + 4))

\* C12 (as stated): a file of a supported brand whose meta lacks the version
\* and flags is read successfully and gives the item list the same file gives with them; a
\* meta box that a write created starts with version 0 and flags 0.
C12_MetaFullBoxQuirk ==
    /\ (pc = "done" /\ res.op = "read" /\ BareMeta(orig)
            /\ HasFtypContent(orig) /\ SupportedBrand(FtypContent(orig))) =>
            /\ tag.err = "ok"
            /\ tag.val = atom_rs_read_tag_from(WithPrefix(orig)).val
    /\ (pc = "done" /\ res.op = "write" /\ res.err = "ok"
            /\ Heads(orig, METADATA) = <<>> /\ Heads(file, METADATA) # <<>>) =>
            Bytes(file, Heads(file, METADATA)[1] + 8, 4) = <<0, 0, 0, 0>>

\* what the claims C13 and C20 call not fitting: the sum of the value that
\* `w` stands for and of d lies above 2^32 - 1, or below 0
Above32(w, d) == w < 0 /\ w + d >= 0
Below32(w, d) == w >= 0 /\ w + d < 0

\* C13 (as stated): an ancestor with an 8-byte head whose size plus len_diff
\* does not fit in 32 bits makes the write fail with Unsupported and nothing
\* is written; otherwise the size field holds the old size plus len_diff,
\* and an extended head keeps the size field 1 and has its 64-bit size
\* updated.
C13_OverflowIsUnsupported ==
    (pc = "done" /\ res.op \in {"update_len", "adjust_lengths"}) =>
        IF IsExtHead(orig)
        THEN /\ res.err = "ok"
             /\ Bytes(file, 0, 4) = <<0, 0, 0, 1>>
             /\ Bytes(file, 8, 8) = BE64(Wrapped64At(orig, 8) + plan.len_diff)
        ELSE IF Above32(Wrapped32At(orig, 0), plan.len_diff)
        THEN res.err = "Unsupported" /\ file = orig
        ELSE /\ res.err = "ok"
             /\ Bytes(file, 0, 4) = BE32(Wrapped32At(orig, 0) + plan.len_diff)

\* C20 (as stated): every stco entry written back is the old entry plus
\* len_diff clamped to [0, 2^32 - 1]; every co64 entry is the old entry plus
\* len_diff.
C20_StcoSaturates ==
    (pc = "done" /\ res.op = "shift") =>
        /\ res.err = "ok"
        /\ StcoEntries(file, 8) =
              [i \in 1..Len(StcoEntries(orig, 8)) |->
                  LET w == StcoEntries(orig, 8)[i] IN
                  IF Above32(w, plan.len_diff) THEN -1
                  ELSE IF Below32(w, plan.len_diff) THEN 0
                  ELSE w + plan.len_diff]
        /\ Co64Entries(file, 32) =
              [i \in 1..Len(Co64Entries(orig, 32)) |->
                  Co64Entries(orig, 32)[i] + plan.len_diff]

\* the atoms of a list that are not named ident
Others(atoms, ident) ==
    LET Other(a) == a.ident # ident IN SelectSeq(atoms, Other)

\* the first data value among the atoms named ident, as an Option
FirstValue(atoms, ident) ==
    LET Is(a) == a.ident = ident /\ a.data # <<>>
        with == SelectSeq(atoms, Is)
    IN  IF with = <<>> THEN <<>> ELSE <<with[1].data[1]>>

\* C14: the getter returns true exactly when the first data value of the
\* flag atom is present, is no text or image (codes 1, 2, 13, 14, 27) and has
\* 1 as its first byte, and false when the atom is absent, the payload is
\* empty, the first byte is not 1 or the data is no integer; the setter leaves the
\* flag atom with BeSigned([1]) as its only data and the getter true; the
\* remover leaves no flag atom and the getter false; both leave the other
\* atoms as they were.
C14_FlagAccessors ==
    /\ (pc = "done" /\ res.op = "get") =>
          LET v == FirstValue(items, COMPILATION) IN
          res.val <=> /\ v # <<>>
                      /\ v[1].code \notin {1, 2, 13, 14, 27}
                      /\ v[1].payload # <<>>
                      /\ v[1].payload[1] = 1
    /\ (pc = "done" /\ res.op = "set") =>
          /\ Tag_data(items, COMPILATION) = <<BeSigned(<<1>>)>>
          /\ Len(items) = Len(Others(items, COMPILATION)) + 1
          /\ flag_value(items, COMPILATION)
          /\ Others(items, COMPILATION) = Others(first, COMPILATION)
    /\ (pc = "done" /\ res.op = "remove") =>
          /\ items = Others(first, COMPILATION)
          /\ ~flag_value(items, COMPILATION)

\* C14 (case): the getter answered true for a flag atom whose first value
\* is BeSigned([1, 0]) and that follows a title.
C14_Witness ==
    /\ pc = "done" /\ res.op = "get" /\ res.val
    /\ Len(items) = 2
    /\ items[1].ident = TITLE
    /\ items[2] = [ident |-> COMPILATION, data |-> <<BeSigned(<<1, 0>>)>>]

\* C15: dump_tag_to writes a ftyp whose content starts with "M4A " and ends
\* with "isomiso2", then a moov that holds one udta, that holds one meta,
\* that holds version 0 and flags 0, the canonical hdlr and an ilst with the
\* given items in the given order; nothing else is written.
C15_DumpTagShape ==
    (pc = "done" /\ res.op = "dump") =>
        LET ft == U32At(file, 0)
            mv == ft
            ud == mv + 8
            me == ud + 8
            hd == me + 12
            il == hd + Hdlr_len(Meta_hdlr)
        IN  /\ TopFourccs(file, 0) = <<FILE_TYPE, MOVIE>>
            /\ StartsWith(FtypContent(file), <<77, 52, 65, 32>>)
            /\ SubSeq(file, ft - 7, ft) = <<105, 115, 111, 109, 105, 115, 111, 50>>
            /\ Len(file) = ft + U32At(file, mv)
            /\ Bytes(file, ud + 4, 4) = USER_DATA
            /\ U32At(file, ud) = U32At(file, mv) - 8
            /\ Bytes(file, me + 4, 4) = METADATA
            /\ U32At(file, me) = U32At(file, ud) - 8
            /\ Bytes(file, me + 8, 4) = <<0, 0, 0, 0>>
            /\ Bytes(file, hd, Hdlr_len(Meta_hdlr)) = Hdlr_write(Meta_hdlr)
            /\ Bytes(file, il + 4, 4) = ITEM_LIST
            /\ il + U32At(file, il) = Len(file)
            /\ read_tag_from(file) = [err |-> "ok", items |-> items]

\* C15 (case): a tag of two atoms, the flag with two values, was dumped.
C15_Witness ==
    /\ pc = "done" /\ res.op = "dump"
    /\ Len(items) = 2
    /\ Len(Tag_data(items, COMPILATION)) = 2
    /\ Len(file) > 100

\* the metadata boxes of a file as the bytes show them: where moov, udta,
\* meta, hdlr and ilst start (each an Option), the length of the old ilst,
\* and the edit point of a rewrite
Hier(f) ==
    LET mv == FirstOf(Heads(f, MOVIE))
        ud == FirstOf(Heads(f, USER_DATA))
        me == FirstOf(Heads(f, METADATA))
        hd == FirstOf(Heads(f, HANDLER_REFERENCE))
        il == FirstOf(Heads(f, ITEM_LIST))
        EndOf(b) == b[1] + U32At(f, b[1])
    IN  [moov |-> mv, udta |-> ud, meta |-> me, hdlr |-> hd, ilst |-> il,
         old  |-> IF il = <<>> THEN 0 ELSE U32At(f, il[1]),
         edit |-> IF ud = <<>> THEN EndOf(mv)
                  ELSE IF me = <<>> THEN EndOf(ud)
                  ELSE IF il = <<>> THEN EndOf(me)
                  ELSE il[1]]

\* the subtree a rewrite of f with these items has to write
Subtree(f, atoms) ==
    LET h    == Hier(f)
        hdlr == Hdlr_write(Meta_hdlr)
        ilst == Ilst_write(atoms)
        meta == write_head(12 + Len(hdlr) + Len(ilst), METADATA)
                    \o <<0, 0, 0, 0>> \o hdlr \o ilst
    IN  IF h.udta = <<>> THEN write_head(8 + Len(meta), USER_DATA) \o meta
        ELSE IF h.meta = <<>> THEN meta
        ELSE IF h.hdlr = <<>> THEN hdlr \o ilst
        ELSE ilst

\* C16: after a successful write_tag_to the bytes at the edit point (the end
\* of moov without udta, the end of udta without meta, the old ilst position
\* or the end of meta otherwise) are udta{meta{hdlr,ilst}}, meta{hdlr,ilst},
\* hdlr+ilst or ilst alone as udta, meta and hdlr were missing; what followed
\* the old ilst follows them, and the file holds one more hdlr only when it
\* held none.
C16_AncestorShapes ==
    (WriteDone /\ Heads(orig, MOVIE) # <<>>) =>
        LET h == Hier(orig)
            w == Subtree(orig, items)
        IN  /\ Bytes(file, h.edit, Len(w)) = w
            /\ Len(file) = Len(orig) - h.old + Len(w)
            /\ Bytes(file, h.edit + Len(w), Len(file) - h.edit - Len(w))
                   = Bytes(orig, h.edit + h.old, Len(orig) - h.edit - h.old)
            /\ Len(Heads(file, HANDLER_REFERENCE))
                   = Len(Heads(orig, HANDLER_REFERENCE)) + (IF h.hdlr = <<>> THEN 1 ELSE 0)
            /\ Len(Heads(file, ITEM_LIST)) = 1
            /\ Len(Heads(file, METADATA)) = 1
            /\ Len(Heads(file, USER_DATA)) = 1

\* C16 (case): a meta that held an ilst and no hdlr was rewritten with a tag
\* of two atoms, and a trak follows udta.
C16_Witness ==
    /\ WriteDone
    /\ Hier(orig).ilst # <<>>
    /\ Hier(orig).hdlr = <<>>
    /\ Len(items) = 2
    /\ Heads(orig, TRACK) # <<>>
    /\ Heads(orig, TRACK)[1] > Hier(orig).edit

\* the size fields of the boxes with this fourcc, in file order
Sizes(f, fourcc) == [k \in 1..Len(Heads(f, fourcc)) |-> U32At(f, Heads(f, fourcc)[k])]

\* the fourccs of the boxes write_tag_to has no size to write for
Bystanders ==
    {FILE_TYPE, FREE, MEDIA_DATA, MOVIE_HEADER, TRACK, TRACK_HEADER, MEDIA,
     MEDIA_INFORMATION, SAMPLE_TABLE, SAMPLE_TABLE_CHUNK_OFFSET,
     SAMPLE_TABLE_CHUNK_OFFSET_64}

\* offset p lies in the size field of the box that starts at b (an Option)
InSizeField(p, b) == b # <<>> /\ p >= b[1] /\ p < b[1] + 4

\* offset p lies in the entries of a chunk offset table of f
InTable(f, p) ==
    \/ \E k \in 1..Len(Heads(f, SAMPLE_TABLE_CHUNK_OFFSET)) :
           LET t == Heads(f, SAMPLE_TABLE_CHUNK_OFFSET)[k]
           IN  p >= t + 16 /\ p < t + U32At(f, t)
    \/ \E k \in 1..Len(Heads(f, SAMPLE_TABLE_CHUNK_OFFSET_64)) :
           LET t == Heads(f, SAMPLE_TABLE_CHUNK_OFFSET_64)[k]
           IN  p >= t + 16 /\ p < t + U32At(f, t)

\* C17 (on files whose sizes stay far below 2^32): after a successful
\* write_tag_to the size field of each of moov, udta
\* and meta that the input held is its old value plus len_diff, where
\* len_diff is the length of the written subtree minus the length of the old
\* ilst (0 without one); the size fields of ftyp, free, mdat, mvhd, trak and
\* the boxes under it are what they were, as is the size of a hdlr the input
\* held; before the edit point no byte differs outside those three size
\* fields and the chunk offset entries; the file is len_diff longer.
C17_SizesPatched ==
    (WriteDone /\ Heads(orig, MOVIE) # <<>>) =>
        LET h == Hier(orig)
            d == Len(Subtree(orig, items)) - h.old
        IN  /\ plan.len_diff = d
            /\ U32At(file, h.moov[1]) = U32At(orig, h.moov[1]) + d
            /\ h.udta # <<>> => U32At(file, h.udta[1]) = U32At(orig, h.udta[1]) + d
            /\ h.meta # <<>> => U32At(file, h.meta[1]) = U32At(orig, h.meta[1]) + d
            /\ \A fourcc \in Bystanders : Sizes(file, fourcc) = Sizes(orig, fourcc)
            /\ h.hdlr # <<>> => Sizes(file, HANDLER_REFERENCE) = Sizes(orig, HANDLER_REFERENCE)
            /\ \A p \in 0..(h.edit - 1) :
                  file[p + 1] # orig[p + 1] =>
                      \/ InSizeField(p, h.moov) \/ InSizeField(p, h.udta)
                      \/ InSizeField(p, h.meta) \/ InTable(orig, p)
            /\ Len(file) = Len(orig) + d

\* C17 (case, on such files): a file whose udta held no meta was rewritten with a tag of two
\* atoms, so that moov and udta grew by the length of a whole meta.
C17_Witness ==
    /\ WriteDone
    /\ Hier(orig).udta # <<>>
    /\ Hier(orig).meta = <<>>
    /\ Len(items) = 2
    /\ U32At(file, Hier(orig).udta[1]) = 8 + Len(Subtree(orig, items))
    /\ U32At(file, Hier(orig).moov[1]) > U32At(orig, Hier(orig).moov[1])

\* C17 (as stated, on the head of one existing ancestor): the size the head
\* holds after the update is the number the old size and len_diff add up to,
\* whether the head is extended or not.
C17_SizeIsOldPlusLenDiff ==
    (pc = "done" /\ res.op = "update_len") =>
        IF IsExtHead(orig)
        THEN Wrapped64At(file, 8) = Wrapped64At(orig, 8) + plan.len_diff
        ELSE /\ ~Above32(Wrapped32At(orig, 0), plan.len_diff)
             /\ ~Below32(Wrapped32At(orig, 0), plan.len_diff)
             /\ Wrapped32At(file, 0) = Wrapped32At(orig, 0) + plan.len_diff

\* the boxes that follow one another from p and stay within [p, e): where
\* each starts, how long it is and its fourcc; the walk stops at a size
\* below 8 or one that runs past e
RECURSIVE Kids(_, _, _)
Kids(f, p, e) ==
    IF p + 8 > e \/ ReadU32(f, p) < 8 \/ p + ReadU32(f, p) > e THEN <<>>
    ELSE <<[pos |-> p, len |-> ReadU32(f, p), fourcc |-> Bytes(f, p + 4, 4)]>>
             \o Kids(f, p + ReadU32(f, p), e)

\* the boxes from p fill [p, e) exactly
Tiles(f, p, e) ==
    LET ks == Kids(f, p, e)
    IN  p <= e /\ Sum([i \in 1..Len(ks) |-> ks[i].len]) = e - p

\* the bytes between the start of box b and its first child: 8 for the head,
\* and version and flags in meta
HeadLen(b) == IF b.fourcc = METADATA THEN 12 ELSE 8

\* the children of box b
KidsOf(f, b) == Kids(f, b.pos + HeadLen(b), b.pos + b.len)

\* the declared size of box b is its head length plus the lengths of its
\* children
SizeIsSum(f, b) == b.len >= HeadLen(b) /\ Tiles(f, b.pos + HeadLen(b), b.pos + b.len)

\* the boxes that hold boxes; every child of ilst does
ContainerFourccs ==
    {MOVIE, TRACK, MEDIA, MEDIA_INFORMATION, SAMPLE_TABLE, USER_DATA, METADATA, ITEM_LIST}

\* box b, and every container below it, has the size its children add up to
RECURSIVE Sound(_, _, _)
Sound(f, b, item) ==
    IF item \/ b.fourcc \in ContainerFourccs
    THEN /\ SizeIsSum(f, b)
         /\ \A i \in 1..Len(KidsOf(f, b)) :
                Sound(f, KidsOf(f, b)[i], b.fourcc = ITEM_LIST /\ ~item)
    ELSE TRUE

\* the hypothesis of C18: the top-level boxes tile the file and every
\* container's content is the sum of its children
WellFormed(f) ==
    /\ Tiles(f, 0, Len(f))
    /\ \A i \in 1..Len(Kids(f, 0, Len(f))) : Sound(f, Kids(f, 0, Len(f))[i], FALSE)

\* the conclusion of C18: the top-level boxes tile the file, and moov, its
\* udta, the meta of that and the ilst of that have the sizes their children
\* add up to
MetadataSound(f) ==
    LET moov == FirstOf(Named(Kids(f, 0, Len(f)), MOVIE))
        udta == IF moov = <<>> THEN <<>> ELSE FirstOf(Named(KidsOf(f, moov[1]), USER_DATA))
        meta == IF udta = <<>> THEN <<>> ELSE FirstOf(Named(KidsOf(f, udta[1]), METADATA))
        ilst == IF meta = <<>> THEN <<>> ELSE FirstOf(Named(KidsOf(f, meta[1]), ITEM_LIST))
    IN  /\ Tiles(f, 0, Len(f))
        /\ \A b \in {moov, udta, meta, ilst} : b # <<>> => SizeIsSum(f, b[1])

\* C18 (as stated): a successful write_tag_to on a well-formed file leaves a
\* file whose top-level boxes tile it up to its new length and in which moov,
\* udta, meta and ilst have the sizes their children add up to.
C18_WellFormednessKept ==
    (pc = "done" /\ res.op = "write" /\ res.err = "ok" /\ WellFormed(orig)) =>
        MetadataSound(file)

\* the steps of write_tag_to that write to the file
WritingSteps == {"adjust", "update", "set_len", "write_atoms", "write_moved"}

\* C19: in every step of write_tag_to that changes the file the trailer (the
\* bytes of the input from the end of the old ilst, or from the edit point,
\* to the end) is already in memory, and no chunk offset or size is written
\* before; the steps that shift offsets and patch sizes leave the length
\* alone; the new subtree and the trailer are written into a file that
\* already has the length old_len + len_diff and do not change it; the
\* trailer is written last, behind the new subtree that is already in the
\* file, at moved_data_start + len_diff, and the call returns.
C19_StepOrder ==
    [][ LET h     == Hier(orig)
            w     == Subtree(orig, items)
            start == h.edit + h.old
            d     == Len(w) - h.old
        IN  /\ file' # file =>
                  /\ pc \in WritingSteps
                  /\ plan.moved_data = Bytes(orig, start, Len(orig) - start)
                  /\ plan.old_file_len = Len(orig)
            /\ pc = "read_moved" => (pc' = "adjust" /\ file = orig)
            /\ pc \in {"adjust", "update"} => Len(file') = Len(orig)
            /\ pc = "set_len" => (Len(file') = Len(orig) + d /\ pc' = "write_atoms")
            /\ pc \in {"write_atoms", "write_moved"} =>
                  (Len(file) = Len(orig) + d /\ Len(file') = Len(file))
            /\ pc = "write_atoms" =>
                  (pc' = "write_moved" /\ file' = WriteAt(file, h.edit, w))
            /\ pc = "write_moved" =>
                  /\ Bytes(file, h.edit, Len(w)) = w
                  /\ file' = WriteAt(file, start + d, Bytes(orig, start, Len(orig) - start))
                  /\ pc' = "done" /\ res'.err = "ok"
      ]_vars

\* C19 (case): the trailer, which holds a trak, has just been written 25
\* bytes or more before the place it was read from, into a file that was
\* shortened first.
C19_Witness ==
    /\ WriteDone
    /\ plan.len_diff <= -25
    /\ Len(file) = plan.old_file_len + plan.len_diff
    /\ Len(plan.moved_data) > 60
    /\ Heads(plan.moved_data, TRACK) # <<>>
    /\ Bytes(file, plan.moved_data_start + plan.len_diff, Len(plan.moved_data))
           = plan.moved_data

\* the cases in which planning cannot but fail, read off the bytes: no whole
\* ftyp box first, no supported brand in it, no top-level moov
PlanningFails(f) ==
    \/ ~HasFtypContent(f)
    \/ ~SupportedBrand(FtypContent(f))
    \/ Named(Kids(f, 0, Len(f)), MOVIE) = <<>>

\* C21: a write_tag_to that ends with an error of planning (of Ftyp::parse,
\* of the brand, of the sweep and the finds under it, or the missing moov)
\* leaves the bytes and the length of the file as they were; and on a file
\* without a whole ftyp, with an unsupported brand or without a moov the call
\* ends with such an error.
C21_PlanningWritesNothing ==
    /\ (pc = "done" /\ res.op = "write" /\ plan.err # "ok") =>
          (res.err = plan.err /\ file = orig)
    /\ (pc = "done" /\ res.op = "write" /\ PlanningFails(orig)) =>
          (res.err # "ok" /\ plan.err # "ok" /\ file = orig)

\* C21 (case): the call ended with the Parsing error of a child of moov that
\* declares 4 bytes, on a file that has an mdat behind moov.
C21_Witness ==
    /\ pc = "done" /\ res.op = "write" /\ res.err = "Parsing"
    /\ TopFourccs(orig, 0) = <<FILE_TYPE, MOVIE, MEDIA_DATA>>
    /\ U32At(orig, Heads(orig, MOVIE)[1] + 8) = 4
    /\ file = orig

\* the cumulative length of the children the loop of Trak::parse_atom took
SeenLen(seen) == Sum([i \in 1..Len(seen) |-> seen[i].len])

\* a Trak::parse has ended
TrakParsed == pc = "done" /\ res.op = "parse" /\ res.box = TRACK

\* C22: the loop over the children of a trak ends with a value exactly when
\* the lengths of the children it took add up to the content length of the
\* trak; when a child carries the sum past the content length the parse
\* ends with a Parsing error, not with a value.
C22_LoopEndsAtContentLen ==
    TrakParsed =>
        /\ res.err = "ok" => SeenLen(res.seen) = ContentLen(BoxHead(orig))
        /\ SeenLen(res.seen) > ContentLen(BoxHead(orig)) => res.err = "Parsing"

\* the input starts with the head of a ftyp box whose content the input does
\* not hold to its end
FtypIsCut(f) ==
    /\ Len(f) >= 8 /\ Bytes(f, 4, 4) = FILE_TYPE
    /\ ReadU32(f, 0) > 8 /\ ReadU32(f, 0) > Len(f)

\* C23 (as stated): when the parse of a box fails, here the ftyp box whose
\* content is cut by the end of the input, the error that read_tag_from
\* returns keeps the kind of the failed read (Io), returns no value, and has
\* a description that starts with "Error parsing ftyp: ".
C23_ErrorParsingPrefix ==
    (pc = "done" /\ res.op = "read" /\ FtypIsCut(orig)) =>
        /\ tag.err = "Io"
        /\ tag.val = <<>>
        /\ StartsWith(tag.desc, "Error parsing ftyp: ")

\* the children of the trak the input starts with, read off its bytes
TrakKids(f) == Kids(f, 8, ReadU32(f, 0))

\* the content of the last child of this fourcc, as an Option
LastContent(f, fourcc) ==
    LET k == LastOf(Named(TrakKids(f), fourcc))
    IN  IF k = <<>> THEN <<>> ELSE <<Bytes(f, k[1].pos + 8, k[1].len - 8)>>

\* the entries of seen for the children of this fourcc
SeenOf(seen, fourcc) == LET Is(e) == e.fourcc = fourcc IN SelectSeq(seen, Is)

\* every child of this fourcc was dealt with in this way
AllActs(seen, fourcc, act) ==
    \A i \in 1..Len(SeenOf(seen, fourcc)) : SeenOf(seen, fourcc)[i].act = act

\* C24 (as stated): a Trak::parse that returns a value returns tkhd = None
\* and tref = None when read_chapters is off, and has skipped those
\* children; mdia is parsed when read_chapters or read_audio_info is on and
\* skipped otherwise; unknown children are skipped; on a trak whose children
\* fill its content each field holds the last child of its kind, whatever
\* was skipped around it; and the reader stands at the end of the trak.
C24_ReadConfigGating ==
    (TrakParsed /\ res.err = "ok") =>
        /\ ~plan.read_chapters =>
              /\ res.val.tkhd = <<>> /\ res.val.tref = <<>>
              /\ AllActs(res.seen, TRACK_HEADER, "skipped")
              /\ AllActs(res.seen, TRACK_REFERENCE, "skipped")
        /\ plan.read_chapters =>
              /\ AllActs(res.seen, TRACK_HEADER, "parsed")
              /\ AllActs(res.seen, TRACK_REFERENCE, "parsed")
        /\ AllActs(res.seen, MEDIA,
                   IF plan.read_chapters \/ plan.read_audio_info THEN "parsed" ELSE "skipped")
        /\ AllActs(res.seen, FREE, "skipped")
        /\ Tiles(orig, 8, ReadU32(orig, 0)) =>
              /\ Len(res.seen) = Len(TrakKids(orig))
              /\ res.val.tkhd = IF plan.read_chapters
                                THEN LastContent(orig, TRACK_HEADER) ELSE <<>>
              /\ res.val.tref = IF plan.read_chapters
                                THEN LastContent(orig, TRACK_REFERENCE) ELSE <<>>
              /\ res.val.mdia = IF plan.read_chapters \/ plan.read_audio_info
                                THEN LastContent(orig, MEDIA) ELSE <<>>
        /\ res.pos = End(BoxHead(orig))

\* the lengths of the children a Trak value holds
KidLens(t) ==
    [i \in 1..Len(t.tkhd \o t.tref \o t.mdia) |-> 8 + Len((t.tkhd \o t.tref \o t.mdia)[i])]

\* generic atoms: the item atoms of the lists a caller hands over, their
\* data atoms, and a meta atom (offset 4) that holds the items
GenericAtoms ==
    LET its == UNION { { ItemAtoms(ItemLists[i])[k] : k \in 1..Len(ItemLists[i]) } :
                          i \in 1..Len(ItemLists) }
    IN  its \cup UNION { { a.content.atoms[k] : k \in 1..Len(a.content.atoms) } : a \in its }
            \cup { Atom_with(METADATA, 4, Content_Atoms(ItemAtoms(ItemLists[i]))) :
                     i \in 1..Len(ItemLists) }

\* C25: the bytes a write emits are as many as len() says, and the head
\* that was written declares that many: for a Trak 8 and the lengths of the
\* children it holds, for a Co64 8 and 8 + 8 * the number of offsets, for a
\* Hdlr 8 and the payload, for a generic atom 8, its offset and its content,
\* where typed data counts 8 bytes before its payload.
C25_SizeContract ==
    pc = "written" =>
        /\ ReadU32(file, 0) = Len(file)
        /\ res.box = TRACK =>
              (Len(file) = Trak_len(tag) /\ Trak_len(tag) = 8 + Sum(KidLens(tag)))
        /\ res.box = SAMPLE_TABLE_CHUNK_OFFSET_64 =>
              (Len(file) = Co64_len(tag) /\ Co64_len(tag) = 8 + (8 + 8 * Len(tag.offsets)))
        /\ res.box = HANDLER_REFERENCE =>
              (Len(file) = Hdlr_len(tag) /\ Hdlr_len(tag) = 8 + Len(tag))
        /\ \A a \in GenericAtoms :
              /\ Len(Atom_write_to(a)) = Atom_len(a)
              /\ Atom_len(a) = 8 + a.offset + Content_len(a.content)
              /\ a.content.kind = "typed" => Atom_len(a) = 8 + 8 + Len(a.content.bytes)
              /\ a.content.kind = "atoms" =>
                    Content_len(a.content) = Len(Content_write_to(a.content))

\* C25 (case): a Trak that holds a tkhd of 2, a tref of 1 and a mdia of 3
\* bytes was written as 38 bytes.
C25_Witness ==
    /\ pc = "written" /\ res.box = TRACK
    /\ tag = [tkhd |-> << <<1, 2>> >>, tref |-> << <<3>> >>, mdia |-> << <<4, 5, 6>> >>]
    /\ Len(file) = 38

\* C26 (as stated): a Co64 or Hdlr value that was written and parsed from
\* the written bytes, the head first, comes back as a value equal to it.
C26_RoundTrip ==
    (pc = "reparsed" /\ res.box \in {SAMPLE_TABLE_CHUNK_OFFSET_64, HANDLER_REFERENCE}) =>
        (res.err = "ok" /\ res.val = tag)

\* a Co64::parse has ended
Co64Parsed == pc = "done" /\ res.op = "parse" /\ res.box = SAMPLE_TABLE_CHUNK_OFFSET_64

\* the entry count n does not fit a content of len bytes: 8 + 8 * n # len
CountMismatch(n, len) == len < 8 \/ (len - 8) % 8 # 0 \/ n # (len - 8) \div 8

\* C27: a Co64::parse whose stream holds version and flags ends with
\* UnknownVersion(version) when the version is not 0; with version 0 and an
\* entry count n in the stream it ends with a Parsing error, the reader
\* still before the first offset, when 8 + 8 * n is not the content length;
\* otherwise it returns exactly the n offsets of the stream in their order.
C27_Co64Validates ==
    Co64Parsed =>
        LET h  == BoxHead(orig)
            cp == ContentPos(h)
            n  == ReadU32(orig, cp + 4)
        IN  /\ (cp + 4 <= Len(orig) /\ orig[cp + 1] # 0) =>
                  (res.err = "UnknownVersion" /\ res.arg = orig[cp + 1] /\ res.val = <<>>)
            /\ (cp + 8 <= Len(orig) /\ orig[cp + 1] = 0 /\ CountMismatch(n, ContentLen(h))) =>
                  (res.err = "Parsing" /\ res.pos = cp + 8 /\ res.val = <<>>)
            /\ (cp + 8 <= Len(orig) /\ orig[cp + 1] = 0 /\ ~CountMismatch(n, ContentLen(h))
                  /\ End(h) <= Len(orig)) =>
                  /\ res.err = "ok"
                  /\ Len(res.val.offsets) = n
                  /\ \A i \in 1..n :
                        res.val.offsets[i] = Wrapped64At(orig, cp + 8 + 8 * (i - 1))
                  /\ res.pos = End(h)
            /\ res.err = "ok" =>
                  (orig[cp + 1] = 0 /\ ~CountMismatch(n, ContentLen(h)))

\* C27 (case): a co64 box of version 0 that declares two entries and holds
\* one was refused with a Parsing error.
C27_Witness ==
    /\ Co64Parsed /\ res.err = "Parsing"
    /\ ContentLen(BoxHead(orig)) = 16
    /\ ReadU32(orig, ContentPos(BoxHead(orig)) + 4) = 2
    /\ End(BoxHead(orig)) <= Len(orig)

\* the fourccs of a list of boxes
FourccsOf(ks) == [i \in 1..Len(ks) |-> ks[i].fourcc]

\* the fourccs of the children a Trak value holds, in the order of its fields
FieldFourccs(t) ==
    (IF t.tkhd = <<>> THEN <<>> ELSE <<TRACK_HEADER>>)
        \o (IF t.tref = <<>> THEN <<>> ELSE <<TRACK_REFERENCE>>)
        \o (IF t.mdia = <<>> THEN <<>> ELSE <<MEDIA>>)

\* C28: the bytes Trak::write emits are the head of the trak and then the
\* children the value holds, each once, in the order tkhd, tref, mdia,
\* whatever their order in the input the value was parsed from; a child the
\* value does not hold is not in the bytes.
C28_CanonicalChildOrder ==
    (pc = "written" /\ res.box = TRACK) =>
        LET ks == Kids(file, 8, Len(file))
        IN  /\ Bytes(file, 4, 4) = TRACK
            /\ Tiles(file, 8, Len(file))
            /\ FourccsOf(ks) = FieldFourccs(tag)
            /\ \A i \in 1..Len(ks) :
                  Bytes(file, ks[i].pos + 8, ks[i].len - 8) =
                      (tag.tkhd \o tag.tref \o tag.mdia)[i]

\* C28 (case): a trak whose children stood in the order mdia, tref, tkhd was
\* parsed with every flag on and written with tkhd first and mdia last.
C28_Witness ==
    /\ pc = "written" /\ res.box = TRACK
    /\ FourccsOf(TrakKids(orig)) = <<MEDIA, TRACK_REFERENCE, TRACK_HEADER>>
    /\ FourccsOf(Kids(file, 8, Len(file))) = <<TRACK_HEADER, TRACK_REFERENCE, MEDIA>>

\* C29 (as stated): every walk over the boxes of an input comes to its end,
\* with a value or an error.
C29_SweepsTerminate == <>(pc = "done")

\* the box of f that starts at b is in g, at the same place, byte for byte
SameBox(f, g, b) == Bytes(g, b, U32At(f, b)) = Bytes(f, b, U32At(f, b))

\* C30: after a successful write_tag_to a byte below new_atoms_start
\* differs from the byte that was there only inside the size field of the
\* moov, udta or meta of the input or, on a file with an mdat behind moov,
\* inside the entries of a chunk offset table; the ftyp box, every mvhd, a
\* hdlr that stood before the edit and every mdat before moov are the bytes
\* they were.
C30_FrameBelowEdit ==
    WriteDone =>
        LET h == Hier(orig)
            mdats == Heads(orig, MEDIA_DATA)
            follows == \E k \in 1..Len(mdats) : mdats[k] > h.moov[1]
        IN  /\ plan.new_atoms_start <= Len(orig)
            /\ \A p \in 0..(plan.new_atoms_start - 1) :
                  file[p + 1] # orig[p + 1] =>
                      \/ InSizeField(p, h.moov) \/ InSizeField(p, h.udta)
                      \/ InSizeField(p, h.meta)
                      \/ (follows /\ InTable(orig, p))
            /\ SameBox(orig, file, 0)
            /\ \A k \in 1..Len(Heads(orig, MOVIE_HEADER)) :
                  SameBox(orig, file, Heads(orig, MOVIE_HEADER)[k])
            /\ (h.hdlr # <<>> /\ h.hdlr[1] < plan.new_atoms_start) =>
                  SameBox(orig, file, h.hdlr[1])
            /\ \A k \in 1..Len(mdats) :
                  mdats[k] < h.moov[1] => SameBox(orig, file, mdats[k])

\* C30 (case): a file with moov before mdat, a hdlr in its meta and chunk
\* offsets was rewritten to another length; its offsets were shifted and
\* the sizes of moov, udta and meta rewritten, all below new_atoms_start.
C30_Witness ==
    /\ WriteDone
    /\ TopFourccs(orig, 0) = <<FILE_TYPE, MOVIE, MEDIA_DATA>>
    /\ Hier(orig).hdlr # <<>> /\ Hier(orig).hdlr[1] < plan.new_atoms_start
    /\ Heads(orig, MOVIE_HEADER) # <<>>
    /\ plan.len_diff # 0
    /\ AllEntries(file) # AllEntries(orig)
    /\ U32At(file, Hier(orig).meta[1]) # U32At(orig, Hier(orig).meta[1])

=============================================================================
